---- MODULE Spec2Model ----
(***************************************************************************)
(* A model of the resolution engine of blockmodel-utils.js: blockstate     *)
(* variant / multipart selection (parseBlockstate), the default-value      *)
(* tables behind it, item definitions (parseItemDefinition), the model     *)
(* inheritance resolver (resolveModelData) with its texture dereferencing  *)
(* loop, the geometry and materials of loadModel, and the chunks of calls  *)
(* the batch driver runs at once.                                          *)
(*                                                                         *)
(* Encoding of JavaScript values.  TLC compares only values of one shape,  *)
(* so every JavaScript value is a tagged record:                            *)
(*   undefined -> [t |-> "undef"]      "north" -> [t |-> "str", s |-> ..]   *)
(*   7         -> [t |-> "num", n |-> 7]   true -> [t |-> "bool", b |-> ..] *)
(*   [a, b]    -> [t |-> "list", l |-> <<a, b>>]                            *)
(* Identifiers that the code matches against glob patterns are sequences   *)
(* of tokens, the tokens being the literal runs of characters between the  *)
(* `*` and `:` of the tables ("oak_stairs" is <<"oak", "_stairs">>).       *)
(* Scores are kept in tenths, so that the fixed score 0.1 of the empty     *)
(* variant key is the integer 1 and a term's (length - index) is tenfold.  *)
(***************************************************************************)
EXTENDS Integers, Sequences, FiniteSets, TLC

VARIABLES
  call,          \* the entry point this behaviour executes
  pc,            \* the position inside that entry point
  blockstate,    \* parseBlockstate, parseItemDefinition: the id argument (token sequence)
  data,          \* parseBlockstate, parseItemDefinition: the context argument
  overrideFile,  \* the file of the override store the call reads
  assetFile,     \* the file of the asset pack the call reads
  json,          \* parseBlockstate, parseItemDefinition: the parsed document
  scored,        \* parseBlockstate, variants: the scored and sorted candidates
  scoredParts,   \* parseBlockstate, multipart: the matching parts, sorted
  ranges,        \* parseBlockstate, multipart: properties whose raw value was a list
  usedKeyValues, \* parseBlockstate, multipart: bindings of the accepted parts
  accepted,      \* parseBlockstate, multipart: history, the indices of the parts not rejected
  models,        \* parseBlockstate, parseItemDefinition: the selected model references
  idx,           \* the index of the loop the call is in
  prop,          \* default lookup: the property looked up
  raw,           \* default lookup: the value found
  ret,           \* what the call gave its caller: pending, returned, threw
  display,       \* parseItemDefinition: the display argument
  model,         \* resolveModelData: the model argument
  pack,          \* resolveModelData: the model and texture files it can read
  merged,        \* resolveModelData: merged
  stack,         \* resolveModelData: stack
  current,       \* resolveModelData: currentNamespace and currentItem
  keys,          \* resolveModelData: the keys `for (const key in merged.textures)` visits
  value,         \* resolveModelData: value, in the dereferencing loop
  failed,        \* resolveModelData: history, the catch block ran
  table0,        \* resolveModelData: history, merged.textures before dereferencing
  scene,         \* loadModel: the groups added to the scene
  group,         \* loadModel: the meshes of containerGroup
  mesh,          \* loadModel: the mesh of the element at hand
  face,          \* loadModel: the index in faceOrder of the face at hand
  texRef,        \* loadModel: texRef, in the loop that follows references
  textureCache,  \* loadModel: textureCache
  self,          \* the batch: the call that is running
  calls          \* the batch: each call's variables as its last await left them

\* The variables of parseBlockstate and of the default lookup.
blockVars == <<blockstate, data, overrideFile, assetFile, json, scored, scoredParts,
               ranges, usedKeyValues, accepted, models, idx, prop, raw>>

\* The variables of resolveModelData and of parseItemDefinition.
resolveVars == <<display, model, pack, merged, stack, current, keys, value, failed,
                 table0>>

\* The variables of loadModel; its model argument is what resolveModelData
\* returned, the object in merged.
loadVars == <<scene, group, mesh, face, texRef, textureCache>>

\* The variables of a batch of calls.
batchVars == <<self, calls>>

vars == <<call, pc, ret, blockVars, resolveVars, loadVars, batchVars>>

----------------------------------------------------------------------------
(* JavaScript values *)

Undef == [t |-> "undef"]
S(s) == [t |-> "str", s |-> s]
N(n) == [t |-> "num", n |-> n]
B(b) == [t |-> "bool", b |-> b]
L(l) == [t |-> "list", l |-> l]

\* What indexOf / includes see in place of the value undefined.
undefined == "#undefined"

\* Number.prototype.toString for the numbers of the tables.
NumStr(n) ==
  CASE n = 0 -> "0" [] n = 1 -> "1" [] n = 2 -> "2" [] n = 3 -> "3"
    [] n = 4 -> "4" [] n = 5 -> "5" [] n = 6 -> "6" [] n = 7 -> "7"
    [] n = 8 -> "8" [] n = 9 -> "9" [] n = 10 -> "10" [] n = 11 -> "11"
    [] n = 12 -> "12" [] n = 13 -> "13" [] n = 14 -> "14" [] n = 15 -> "15"

\* e.toString() / raw?.toString()
toString(v) ==
  CASE v.t = "str"  -> v.s
    [] v.t = "num"  -> NumStr(v.n)
    [] v.t = "bool" -> IF v.b THEN "true" ELSE "false"
    [] v.t = "undef" -> undefined

\* obj[k] on a plain object: undefined for a key that is not there.
Get(obj, k) == IF k \in DOMAIN obj THEN obj[k] ELSE Undef

\* a ?? b
Coalesce(a, b) == IF a.t = "undef" THEN b ELSE a

----------------------------------------------------------------------------
(* The default tables *)

DEFAULT_BLOCKSTATES ==
  [ facing |-> S("north"),
    half |-> S("bottom"),
    attachment |-> S("floor"),
    up |-> B(TRUE),
    shape |-> L(<<S("straight"), S("north_south")>>),
    age |-> L(<<N(7), N(6), N(5), N(4), N(3), N(2), N(1), N(0)>>),
    tilt |-> S("none"),
    bottom |-> B(FALSE),
    north |-> B(FALSE),
    east |-> B(FALSE),
    south |-> B(FALSE),
    west |-> B(FALSE),
    axis |-> S("y"),
    face |-> S("wall"),
    orientation |-> S("north_up"),
    side_chain |-> S("unconnected"),
    powered |-> B(FALSE),
    segment_amount |-> N(4),
    flower_amount |-> N(4),
    rotation |-> N(8) ]

\* Each entry: the key split at "|" into patterns (token sequences, "*" the
\* wildcard), and the table the key selects.
UNIQUE_DEFAULT_BLOCKSTATES ==
  << [ key |-> << <<"*", "_mushroom_block">>, <<"mushroom_stem">> >>,
       table |-> [ north |-> B(TRUE), east |-> B(TRUE), south |-> B(TRUE),
                   west |-> B(TRUE), up |-> B(TRUE), down |-> B(TRUE) ] ],
     [ key |-> << <<"fire">> >>,
       table |-> [ up |-> B(FALSE) ] ],
     [ key |-> << <<"*", "_stairs">>, <<"*", "_glazed_terracotta">>, <<"cocoa">> >>,
       table |-> [ facing |-> S("south") ] ],
     [ key |-> << <<"*", "_amethyst_bud">>, <<"amethyst_cluster">>, <<"barrel">>,
                  <<"end_rod">>, <<"*", "lightning_rod">>, <<"*", "piston", "*">>,
                  <<"*", "shulker_box">> >>,
       table |-> [ facing |-> S("up") ] ],
     [ key |-> << <<"*", "campfire">>, <<"redstone_torch">>, <<"redstone_wall_torch">> >>,
       table |-> [ lit |-> B(TRUE) ] ],
     [ key |-> << <<"glow_lichen">>, <<"sculk_vein">>, <<"resin_clump">> >>,
       table |-> [ up |-> B(FALSE), down |-> B(TRUE) ] ],
     [ key |-> << <<"grindstone">> >>,
       table |-> [ face |-> S("floor") ] ],
     [ key |-> << <<"vine">> >>,
       table |-> [ up |-> B(FALSE), south |-> B(TRUE) ] ],
     [ key |-> << <<"pale_moss_carpet">> >>,
       table |-> [ bottom |-> B(TRUE) ] ],
     [ key |-> << <<"hopper">> >>,
       table |-> [ facing |-> S("down") ] ],
     [ key |-> << <<"brewing_stand">> >>,
       table |-> [ has_bottle_0 |-> B(FALSE), has_bottle_1 |-> B(FALSE),
                   has_bottle_2 |-> B(FALSE) ] ],
     [ key |-> << <<"redstone_wire">> >>,
       table |-> [ north |-> S("side"), south |-> S("side"),
                   east |-> S("side"), west |-> S("side") ] ],
     [ key |-> << <<"*", "cauldron">> >>,
       table |-> [ level |-> N(3) ] ],
     [ key |-> << <<"*", "_bed">> >>,
       table |-> [ part |-> S("foot"), facing |-> S("south") ] ],
     [ key |-> << <<"chiseled_bookshelf">> >>,
       table |-> [ slot_0_occupied |-> B(FALSE), slot_1_occupied |-> B(FALSE),
                   slot_2_occupied |-> B(FALSE), slot_3_occupied |-> B(FALSE),
                   slot_4_occupied |-> B(FALSE), slot_5_occupied |-> B(FALSE) ] ] >>

\* The empty object getUniqueDefault returns when nothing matches.
EmptyObject == [k \in {} |-> Undef]

\* new RegExp("^" + pattern.replace(/\*/g, ".*") + "$").test(id)
RECURSIVE GlobTest(_, _)
GlobTest(pattern, id) ==
  IF pattern = <<>> THEN id = <<>>
  ELSE IF Head(pattern) = "*"
    THEN \E n \in 0..Len(id) : GlobTest(Tail(pattern), SubSeq(id, n + 1, Len(id)))
    ELSE /\ id # <<>>
         /\ Head(id) = Head(pattern)
         /\ GlobTest(Tail(pattern), Tail(id))

\* patterns.some(regex => regex.test(blockstate))
KeyMatches(key, id) == \E j \in 1..Len(key) : GlobTest(key[j], id)

\* UNIQUE_DEFAULT_BLOCKSTATES[blockstate]: the entry whose whole key is the id.
ExactEntries(id) ==
  {i \in 1..Len(UNIQUE_DEFAULT_BLOCKSTATES) : UNIQUE_DEFAULT_BLOCKSTATES[i].key = <<id>>}

\* for (const key in UNIQUE_DEFAULT_BLOCKSTATES): the scan from entry i on.
RECURSIVE ScanUnique(_, _)
ScanUnique(i, id) ==
  IF i > Len(UNIQUE_DEFAULT_BLOCKSTATES) THEN EmptyObject
  ELSE IF KeyMatches(UNIQUE_DEFAULT_BLOCKSTATES[i].key, id)
    THEN UNIQUE_DEFAULT_BLOCKSTATES[i].table
    ELSE ScanUnique(i + 1, id)

\* getUniqueDefault taking the last key that matches instead of the first.
getUniqueDefaultLastMatch(id) ==
  LET hits == {i \in 1..Len(UNIQUE_DEFAULT_BLOCKSTATES) :
                 KeyMatches(UNIQUE_DEFAULT_BLOCKSTATES[i].key, id)}
  IN IF hits = {} THEN EmptyObject
     ELSE UNIQUE_DEFAULT_BLOCKSTATES[CHOOSE i \in hits : \A j \in hits : j <= i].table

getUniqueDefault(id) ==
  IF ExactEntries(id) # {}
    THEN UNIQUE_DEFAULT_BLOCKSTATES[CHOOSE i \in ExactEntries(id) : TRUE].table
    ELSE ScanUnique(1, id)

\* data[k] ?? getUniqueDefault(blockstate)[k] ?? DEFAULT_BLOCKSTATES[k]
RawValue(d, id, k) ==
  Coalesce(Get(d, k), Coalesce(Get(getUniqueDefault(id), k), Get(DEFAULT_BLOCKSTATES, k)))

----------------------------------------------------------------------------
(* Namespaces and files *)

Colons(str) == {p \in 1..Len(str) : str[p] = ":"}

\* resolveNamespace: str.split(":") has two parts exactly when str holds one ":".
resolveNamespace(str) ==
  IF Cardinality(Colons(str)) = 1
    THEN LET p == CHOOSE q \in Colons(str) : TRUE
         IN [namespace |-> SubSeq(str, 1, p - 1), item |-> SubSeq(str, p + 1, Len(str))]
    ELSE [namespace |-> <<"minecraft">>, item |-> str]

\* A file of the override store or of the asset pack.
Missing == [st |-> "missing"]
Unparsable == [st |-> "unparsable"]
Json(doc) == [st |-> "json", doc |-> doc]

\* await fileExists(overridePath) ? overridePath : assetPath
PickPath(override, asset) == IF override.st # "missing" THEN override ELSE asset

Pending == [st |-> "pending"]
Threw == [st |-> "threw"]
Returned(v) == [st |-> "returned", v |-> v]

----------------------------------------------------------------------------
(* parseBlockstate: the variants form *)

\* Array.isArray(raw) ? raw.map(e => e.toString()) : [raw?.toString()]
Actuals(r) ==
  IF r.t = "list" THEN [j \in 1..Len(r.l) |-> toString(r.l[j])] ELSE <<toString(r)>>

\* Array.prototype.indexOf, 1-based, 0 for "not found" (the code's -1).
IndexOf(seq, v) ==
  IF \E j \in 1..Len(seq) : seq[j] = v
    THEN CHOOSE j \in 1..Len(seq) : seq[j] = v /\ \A h \in 1..(j - 1) : seq[h] # v
    ELSE 0

\* A scoring in which a term that does not match disqualifies the key.
MatchScoreHard(actuals, v) ==
  LET index == IndexOf(actuals, v)
  IN IF index = 0 THEN -1000 ELSE 10 * (Len(actuals) - (index - 1))

\* acc + (actuals.length - index), or acc for index -1, in tenths.
MatchScore(actuals, v) ==
  LET index == IndexOf(actuals, v)
  IN IF index = 0 THEN 0 ELSE 10 * (Len(actuals) - (index - 1))

\* One step of the reduce over the terms of a key.
TermScore(term, d, id) == MatchScore(Actuals(RawValue(d, id, term.k)), term.v)

RECURSIVE SumTerms(_, _, _)
SumTerms(key, d, id) ==
  IF key = <<>> THEN 0
  ELSE SumTerms(SubSeq(key, 1, Len(key) - 1), d, id) + TermScore(key[Len(key)], d, id)

\* The score of a variant key; the empty key has the fixed score 0.1.
VariantScore(key, d, id) == IF key = <<>> THEN 1 ELSE SumTerms(key, d, id)

\* Array.isArray(value) ? value[0] : value
FirstEntry(val) ==
  IF val.t = "list"
    THEN (IF Len(val.l) > 0 THEN val.l[1] ELSE Undef)
    ELSE val.m

\* variants.map(...).filter(e => e.model)
RECURSIVE ScoreVariants(_, _, _)
ScoreVariants(variants, d, id) ==
  IF variants = <<>> THEN <<>>
  ELSE LET n == Len(variants)
           rest == ScoreVariants(SubSeq(variants, 1, n - 1), d, id)
           entry == FirstEntry(variants[n].value)
       IN IF entry.t = "undef" THEN rest
          ELSE Append(rest, [score |-> VariantScore(variants[n].key, d, id),
                             model |-> entry, index |-> n])

\* The sort in ascending order of score.
SortByScoreAsc(s) ==
  LET Before(a, b) == s[a].score < s[b].score \/ (s[a].score = s[b].score /\ a < b)
  IN [p \in 1..Len(s) |->
        s[CHOOSE e \in 1..Len(s) :
            Cardinality({o \in 1..Len(s) : Before(o, e)}) = p - 1]]

\* scored.sort((a, b) => b.score - a.score): a stable sort, so that of two
\* candidates the one the comparator puts first, or on equal scores the one
\* that stood first, comes first.
SortByScore(s) ==
  LET Before(a, b) == s[a].score > s[b].score \/ (s[a].score = s[b].score /\ a < b)
  IN [p \in 1..Len(s) |->
        s[CHOOSE e \in 1..Len(s) :
            Cardinality({o \in 1..Len(s) : Before(o, e)}) = p - 1]]

----------------------------------------------------------------------------
(* parseBlockstate: the multipart form *)

\* A plain object used as a map from property names to strings, kept as its
\* Object.entries: pairs [k, v] in insertion order.
MapHas(m, k) == \E j \in 1..Len(m) : m[j].k = k

\* m[k], with <<>> standing for undefined (no split string is empty).
MapGet(m, k) == IF MapHas(m, k) THEN m[CHOOSE j \in 1..Len(m) : m[j].k = k].v ELSE <<>>

\* m[k] = v
MapSet(m, k, v) ==
  IF MapHas(m, k)
    THEN [j \in 1..Len(m) |-> IF m[j].k = k THEN [k |-> k, v |-> v] ELSE m[j]]
    ELSE Append(m, [k |-> k, v |-> v])

\* The truthiness of a string kept as its split at "|": undefined and ""
\* are falsy.
Truthy(v) == v # <<>> /\ v # <<"">>

\* A comparison that lets undefined stand for nothing.
OrUndefined(val) == val

\* val ?? "none"
OrNone(val) == IF val = undefined THEN "none" ELSE val

\* actuals.findIndex(val => allowed.includes(val ?? "none")), 1-based, 0 for -1.
FindIndex(actuals, allowed) ==
  LET hit(j) == \E a \in 1..Len(allowed) : allowed[a] = OrNone(actuals[j])
  IN IF \E j \in 1..Len(actuals) : hit(j)
       THEN CHOOSE j \in 1..Len(actuals) : hit(j) /\ \A h \in 1..(j - 1) : ~hit(h)
       ELSE 0

\* Object.entries(cond).every(...), from field f on: `every` stops at the first
\* field that does not match; score and ranges keep what the fields before it
\* added.  acc = [score, ranges]; the result adds `matches`.
RECURSIVE EveryField(_, _, _, _, _)

\* The callback of `every` for field f, r being its raw value.
FieldStep(cond, f, acc, d, id, r) ==
  LET actuals == Actuals(r)
      rg == IF r.t = "list" THEN acc.ranges \cup {cond[f].k} ELSE acc.ranges
      matchIndex == FindIndex(actuals, cond[f].v)
  IN IF matchIndex = 0
       THEN [score |-> acc.score, ranges |-> rg, matches |-> FALSE]
       ELSE EveryField(cond, f + 1,
                       [score |-> acc.score + 10 * (Len(actuals) - (matchIndex - 1)),
                        ranges |-> rg], d, id)

EveryField(cond, f, acc, d, id) ==
  IF f > Len(cond) THEN [score |-> acc.score, ranges |-> acc.ranges, matches |-> TRUE]
  ELSE FieldStep(cond, f, acc, d, id, RawValue(d, id, cond[f].k))

\* for (const key in cond) values[key] = cond[key]
RECURSIVE BindAll(_, _)
BindAll(values, cond) ==
  IF cond = <<>> THEN values
  ELSE BindAll(MapSet(values, Head(cond).k, Head(cond).v), Tail(cond))

\* for (const cond of conds) { ... }, from cond c on.
\* st = [score, ranges, values, match].
RECURSIVE EachCond(_, _, _, _, _, _)

\* The body of the loop for cond c, r being what `every` gave for it.
CondStep(conds, c, isOr, st, d, id, r) ==
  LET values == IF r.matches THEN BindAll(st.values, conds[c]) ELSE st.values
      now == [score |-> r.score, ranges |-> r.ranges, values |-> values,
              match |-> st.match]
  IN IF isOr /\ r.matches THEN [now EXCEPT !.match = TRUE]
     ELSE IF ~isOr /\ ~r.matches THEN [now EXCEPT !.match = FALSE]
     ELSE EachCond(conds, c + 1, isOr, now, d, id)

EachCond(conds, c, isOr, st, d, id) ==
  IF c > Len(conds) THEN st
  ELSE CondStep(conds, c, isOr, st, d, id,
                EveryField(conds[c], 1, [score |-> st.score, ranges |-> st.ranges], d, id))

\* when.OR ?? when.AND ?? [when]
Conds(when) == IF when.t = "map" THEN <<when.c>> ELSE when.cs

\* What the callback of json.multipart.map returns, with `ranges` beside it.
PartResult(part, index, st) ==
  [score |-> st.score, values |-> st.values, part |-> part, index |-> index,
   match |-> st.match, ranges |-> st.ranges]

\* A scoring in which a part without `when` does not match.
ScorePartWhenRequired(part, index, rg, d, id) ==
  IF part.when.t = "none"
    THEN [score |-> 0, values |-> <<>>, part |-> part, index |-> index,
          match |-> FALSE, ranges |-> rg]
    ELSE PartResult(part, index,
                    EachCond(Conds(part.when), 1, part.when.t = "OR",
                             [score |-> 0, ranges |-> rg, values |-> <<>>,
                              match |-> part.when.t # "OR"], d, id))

\* The callback of json.multipart.map for the part at `index` (0-based in
\* the code, 1-based here); rg is the set `ranges` so far.
ScorePart(part, index, rg, d, id) ==
  IF part.when.t = "none"
    THEN [score |-> 0, values |-> <<>>, part |-> part, index |-> index,
          match |-> TRUE, ranges |-> rg]
    ELSE PartResult(part, index,
                    EachCond(Conds(part.when), 1, part.when.t = "OR",
                             [score |-> 0, ranges |-> rg, values |-> <<>>,
                              match |-> part.when.t # "OR"], d, id))

\* json.multipart.map(...) over the first n parts: the scored parts and `ranges`.
RECURSIVE MapParts(_, _, _, _)

MapAppend(out, sp) ==
  [out |-> Append(out, [score |-> sp.score, values |-> sp.values, part |-> sp.part,
                        index |-> sp.index, match |-> sp.match]),
   ranges |-> sp.ranges]

MapNext(parts, n, d, id, before) ==
  MapAppend(before.out, ScorePart(parts[n], n, before.ranges, d, id))

MapParts(parts, n, d, id) ==
  IF n = 0 THEN [out |-> <<>>, ranges |-> {}]
  ELSE MapNext(parts, n, d, id, MapParts(parts, n - 1, d, id))

\* .filter(p => p.match)
RECURSIVE FilterMatch(_)
FilterMatch(s) ==
  IF s = <<>> THEN <<>>
  ELSE IF Head(s).match THEN <<Head(s)>> \o FilterMatch(Tail(s))
  ELSE FilterMatch(Tail(s))

\* .sort((a, b) => b.score - a.score || a.index - b.index)
SortParts(s) ==
  LET Before(a, b) == s[a].score > s[b].score
                        \/ (s[a].score = s[b].score /\ s[a].index < s[b].index)
  IN [p \in 1..Len(s) |->
        s[CHOOSE e \in 1..Len(s) :
            Cardinality({o \in 1..Len(s) : Before(o, e)}) = p - 1]]

\* values.some(([k, v]) => usedKeyValues[k] && usedKeyValues[k] !== v)
Conflicts(values, used) ==
  \E j \in 1..Len(values) :
    Truthy(MapGet(used, values[j].k)) /\ MapGet(used, values[j].k) # values[j].v

\* A binding of every key, list-valued or not.
BindAllKeys(values, used, rg) == BindAll(used, values)

\* for (const [key, value] of values) if (ranges.has(key)) usedKeyValues[key] = value
RECURSIVE BindRanges(_, _, _)
BindRanges(values, used, rg) ==
  IF values = <<>> THEN used
  ELSE BindRanges(Tail(values),
                  IF Head(values).k \in rg
                    THEN MapSet(used, Head(values).k, Head(values).v)
                    ELSE used,
                  rg)

----------------------------------------------------------------------------
(* parseBlockstate: the rotation policy and the per-model decoration *)

\* The model object of a blockstate document.  oid stands for the identity
\* of the JavaScript object; an absent rotation is 0, an absent model name "".
Model(oid, name, x, y, z) ==
  [t |-> "model", oid |-> oid, model |-> name, x |-> x, y |-> y, z |-> z,
   allow_invalid_rotations |-> FALSE, type |-> "", tints |-> <<>>, shader |-> "none",
   uvlock |-> FALSE]

\* a % b of JavaScript for b > 0: the sign of the dividend.
JsRem(a, b) == IF a >= 0 THEN a % b ELSE -((-a) % b)

\* A rotation check that looks at x alone.
InvalidRotationXOnly(m) == m.x # 0 /\ JsRem(m.x, 90) # 0

\* model.x && model.x % 90 !== 0 || model.y && ... || model.z && ...
InvalidRotation(m) ==
  \/ (m.x # 0 /\ JsRem(m.x, 90) # 0)
  \/ (m.y # 0 /\ JsRem(m.y, 90) # 0)
  \/ (m.z # 0 /\ JsRem(m.z, 90) # 0)

\* The reference parseBlockstate returns in place of an invalid rotation.
MissingRef == S("~missing.json")

GRASS_BLOCKS ==
  { <<"bush">>, <<"fern">>, <<"grass_block">>, <<"large_fern">>, <<"pink_petals">>,
    <<"potted_fern">>, <<"short_grass">>, <<"sugar_cane">>, <<"tall_grass">>,
    <<"wildflowers">> }
FOLIAGE_BLOCKS ==
  { <<"acacia_leaves">>, <<"dark_oak_leaves">>, <<"jungle_leaves">>,
    <<"mangrove_leaves">>, <<"oak_leaves">>, <<"vine">> }
DRY_FOLIAGE_BLOCKS == { <<"leaf_litter">> }
WATER_BLOCKS == { <<"bubble_column">>, <<"water_", "cauldron">>, <<"water">> }

STEM_TINTS ==
  << "#00FF00", "#20F704", "#40EF08", "#60E70C", "#80DF10", "#A0D714", "#C0CF18",
     "#E0C71C" >>
REDSTONE_TINTS ==
  << "#4B0000", "#6F0000", "#790000", "#820000", "#8C0000", "#970000", "#A10000",
     "#AB0000", "#B50000", "#BF0000", "#CA0000", "#D30000", "#DD0000", "#E70600",
     "#F11B00", "#FC3100" >>

\* table[v] for a context value v: the element whose index prints as v.
At(table, v) ==
  IF v.t \in {"str", "num"}
       /\ \E j \in 1..Len(table) : NumStr(j - 1) = toString(v)
    THEN table[CHOOSE j \in 1..Len(table) : NumStr(j - 1) = toString(v)]
    ELSE undefined

\* getColorMapTint(assets, mapName, 0.5, 1): the pixel of the colormap, kept
\* as the name of the map it is read from.
getColorMapTint(mapName) == "colormap/" \o mapName

\* model.tints after the decoration of a model of block `item`.
Tints(item, d, old) ==
  IF item \in GRASS_BLOCKS
    THEN (IF item \in {<<"pink_petals">>, <<"wildflowers">>}
            THEN <<"#FFFFFF", getColorMapTint("grass")>>
            ELSE <<getColorMapTint("grass")>>)
  ELSE IF item \in FOLIAGE_BLOCKS THEN <<getColorMapTint("foliage")>>
  ELSE IF item \in DRY_FOLIAGE_BLOCKS THEN <<getColorMapTint("dry_foliage")>>
  ELSE IF item \in WATER_BLOCKS THEN <<"#3F76E4">>
  ELSE IF item = <<"birch_leaves">> THEN <<"#80A755">>
  ELSE IF item = <<"spruce_leaves">> THEN <<"#619961">>
  ELSE IF item = <<"lily_pad">> THEN <<"#208030">>
  ELSE IF item \in {<<"melon_stem">>, <<"pumpkin_stem">>}
    THEN <<At(STEM_TINTS, Coalesce(Get(d, "age"), N(7)))>>
  ELSE IF item \in {<<"attached_melon_stem">>, <<"attached_pumpkin_stem">>}
    THEN <<"#E0C71C">>
  ELSE IF item = <<"redstone_wire">>
    THEN <<At(REDSTONE_TINTS, Coalesce(Get(d, "power"), N(0)))>>
  ELSE old

\* model.shader
Shader(item, old) ==
  IF item = <<"end_portal">> THEN "end_portal/15"
  ELSE IF item = <<"end_gateway">> THEN "end_portal/16"
  ELSE old

\* The body of `for (const model of models)` for a model that passes the
\* rotation policy.
Decorate(m, doc, item, d) ==
  [m EXCEPT !.allow_invalid_rotations = doc.allow_invalid_rotations \/ @,
            !.type = "block",
            !.tints = Tints(item, d, @),
            !.shader = Shader(item, @)]

----------------------------------------------------------------------------
(* parseBlockstate: the steps *)

\* Lines 190-194: the override store first, then the asset pack; a missing
\* or unparsable file rejects the call.
ReadBlockstate ==
  /\ call = "parseBlockstate" /\ pc = "start"
  /\ LET file == PickPath(overrideFile, assetFile)
     IN IF file.st = "json"
          THEN /\ json' = file.doc
               /\ pc' = "select"
               /\ ret' = ret
          ELSE /\ json' = json
               /\ pc' = "done"
               /\ ret' = Threw
  /\ UNCHANGED <<call, blockstate, data, overrideFile, assetFile, scored, scoredParts,
                 ranges, usedKeyValues, accepted, models, idx, prop, raw>>
  /\ UNCHANGED resolveVars
  /\ UNCHANGED loadVars
  /\ UNCHANGED batchVars

\* Lines 198-224.
SelectVariants ==
  /\ call = "parseBlockstate" /\ pc = "select" /\ json.kind = "variants"
  /\ scored' = SortByScore(ScoreVariants(json.variants, data, blockstate))
  /\ models' = IF Len(scored') > 0 THEN <<scored'[1].model>> ELSE <<>>
  /\ idx' = 1
  /\ pc' = "decorate"
  /\ UNCHANGED <<call, blockstate, data, overrideFile, assetFile, json, scoredParts,
                 ranges, usedKeyValues, accepted, prop, raw, ret>>
  /\ UNCHANGED resolveVars
  /\ UNCHANGED loadVars
  /\ UNCHANGED batchVars

\* Lines 226-275: score, filter and sort the parts.
ScoreParts ==
  /\ call = "parseBlockstate" /\ pc = "select" /\ json.kind = "multipart"
  /\ \E mapped \in {MapParts(json.multipart, Len(json.multipart), data, blockstate)} :
       /\ scoredParts' = SortParts(FilterMatch(mapped.out))
       /\ ranges' = mapped.ranges
  /\ usedKeyValues' = <<>>
  /\ accepted' = <<>>
  /\ models' = <<>>
  /\ idx' = 1
  /\ pc' = "accept"
  /\ UNCHANGED <<call, blockstate, data, overrideFile, assetFile, json, scored,
                 prop, raw, ret>>
  /\ UNCHANGED resolveVars
  /\ UNCHANGED loadVars
  /\ UNCHANGED batchVars

\* Lines 279-288: one call of the forEach callback.
AcceptPart ==
  /\ call = "parseBlockstate" /\ pc = "accept" /\ idx <= Len(scoredParts)
  /\ LET sp == scoredParts[idx]
         apply == FirstEntry(sp.part.apply)
     IN IF Conflicts(sp.values, usedKeyValues)
          THEN UNCHANGED <<usedKeyValues, accepted, models>>
          ELSE /\ usedKeyValues' = BindRanges(sp.values, usedKeyValues, ranges)
               /\ accepted' = Append(accepted, sp.index)
               /\ models' = IF apply.t # "undef" /\ apply.model # ""
                              THEN Append(models, apply) ELSE models
  /\ idx' = idx + 1
  /\ UNCHANGED <<call, pc, blockstate, data, overrideFile, assetFile, json, scored,
                 scoredParts, ranges, prop, raw, ret>>
  /\ UNCHANGED resolveVars
  /\ UNCHANGED loadVars
  /\ UNCHANGED batchVars

\* The forEach is over.
AcceptDone ==
  /\ call = "parseBlockstate" /\ pc = "accept" /\ idx > Len(scoredParts)
  /\ idx' = 1
  /\ pc' = "decorate"
  /\ UNCHANGED <<call, blockstate, data, overrideFile, assetFile, json, scored,
                 scoredParts, ranges, usedKeyValues, accepted, models, prop, raw, ret>>
  /\ UNCHANGED resolveVars
  /\ UNCHANGED loadVars
  /\ UNCHANGED batchVars

\* A document with neither `variants` nor `multipart`.
SelectNothing ==
  /\ call = "parseBlockstate" /\ pc = "select" /\ json.kind = "none"
  /\ models' = <<>>
  /\ idx' = 1
  /\ pc' = "decorate"
  /\ UNCHANGED <<call, blockstate, data, overrideFile, assetFile, json, scored,
                 scoredParts, ranges, usedKeyValues, accepted, prop, raw, ret>>
  /\ UNCHANGED resolveVars
  /\ UNCHANGED loadVars
  /\ UNCHANGED batchVars

\* Lines 291-366: one iteration of `for (const model of models)`.
DecorateModel ==
  /\ call = "parseBlockstate" /\ pc = "decorate" /\ idx <= Len(models)
  /\ IF ~json.allow_invalid_rotations /\ InvalidRotation(models[idx])
       THEN /\ ret' = Returned(<<MissingRef>>)
            /\ pc' = "done"
            /\ UNCHANGED <<models, idx>>
       ELSE /\ models' = [models EXCEPT ![idx] =
                             Decorate(@, json, resolveNamespace(blockstate).item, data)]
            /\ idx' = idx + 1
            /\ UNCHANGED <<pc, ret>>
  /\ UNCHANGED <<call, blockstate, data, overrideFile, assetFile, json, scored,
                 scoredParts, ranges, usedKeyValues, accepted, prop, raw>>
  /\ UNCHANGED resolveVars
  /\ UNCHANGED loadVars
  /\ UNCHANGED batchVars

\* Line 368.
ReturnModels ==
  /\ call = "parseBlockstate" /\ pc = "decorate" /\ idx > Len(models)
  /\ ret' = Returned(models)
  /\ pc' = "done"
  /\ UNCHANGED <<call, blockstate, data, overrideFile, assetFile, json, scored,
                 scoredParts, ranges, usedKeyValues, accepted, models, idx, prop, raw>>
  /\ UNCHANGED resolveVars
  /\ UNCHANGED loadVars
  /\ UNCHANGED batchVars

----------------------------------------------------------------------------
(* The default lookup on its own *)

\* Lines 209 and 243: the value a term or a field is matched against.
LookupDefault ==
  /\ call = "lookup" /\ pc = "start"
  /\ raw' = RawValue(data, blockstate, prop)
  /\ pc' = "done"
  /\ UNCHANGED <<call, blockstate, data, overrideFile, assetFile, json, scored,
                 scoredParts, ranges, usedKeyValues, accepted, models, idx, prop, ret>>
  /\ UNCHANGED resolveVars
  /\ UNCHANGED loadVars
  /\ UNCHANGED batchVars

----------------------------------------------------------------------------
(* resolveModelData: documents and files *)

\* A string of a model document kept as its tokens: the marker "#", the
\* separator ":" and the prefix "builtin" are tokens of their own; "" is <<>>.
Tex(c) == [t |-> "str", c |-> c]

\* A texture given as an object { sprite: v }.
Sprite(v) == [t |-> "obj", sprite |-> v]

\* A textures object kept as its Object.entries, in insertion order.
Table(e) == [t |-> "table", e |-> e]
Entry(k, v) == [k |-> k, v |-> v]

\* key in table
Has(table, key) == \E j \in 1..Len(table.e) : table.e[j].k = key

\* table[key]
TexGet(table, key) ==
  IF Has(table, key)
    THEN table.e[CHOOSE j \in 1..Len(table.e) : table.e[j].k = key].v
    ELSE Undef

\* table[key] = v: a new key goes last.
TexSet(table, key, v) ==
  IF Has(table, key)
    THEN Table([j \in 1..Len(table.e) |->
                  IF table.e[j].k = key THEN Entry(key, v) ELSE table.e[j]])
    ELSE Table(Append(table.e, Entry(key, v)))

\* delete table[key]
TexDelete(table, key) ==
  LET Other(e) == e.k # key IN Table(SelectSeq(table.e, Other))

\* v.startsWith("#"), for a string v
startsWithHash(v) == v.t = "str" /\ v.c # <<>> /\ Head(v.c) = "#"

\* !v
Falsy(v) ==
  \/ v.t = "undef"
  \/ (v.t = "str" /\ v.c = <<>>)
  \/ (v.t = "bool" /\ ~v.b)

\* A model document: its parent ("" and absent are <<>>), textures, elements
\* and ambientocclusion, each Undef when the document does not have the key;
\* a document made so has no display.
Doc(parent, textures, elements, ambientocclusion) ==
  [parent |-> parent, textures |-> textures, elements |-> elements,
   ambientocclusion |-> ambientocclusion, display |-> Undef]

\* A display transform, and a document with a display object: a table from
\* slots to transforms, in insertion order.
Transform(rotation) == [t |-> "transform", rotation |-> rotation]
WithDisplay(doc, slots) == [doc EXCEPT !.display = slots]

\* An element: a box of the 16-unit space with the faces it declares.
Cube(faces) == [from |-> <<0, 0, 0>>, to |-> <<16, 16, 16>>, faces |-> faces]

\* overrides/models/~missing.json, the document of the failure path.
MissingDocument ==
  Doc(<<>>,
      Table(<<Entry("missing", Tex(<<"~missing">>)),
              Entry("particle", Tex(<<"~missing">>))>>),
      L(<<Cube([north |-> [texture |-> <<"#", "missing">>]])>>), Undef)

\* The first file a list of files holds under a name.
FileAt(files, name) ==
  IF \E j \in 1..Len(files) : files[j].name = name
    THEN files[CHOOSE j \in 1..Len(files) :
                 files[j].name = name /\ \A h \in 1..(j - 1) : files[h].name # name].file
    ELSE Missing

\* overrides/models/<item>.json
OverrideModel(files, item) ==
  IF item = <<"~missing">> THEN Json(MissingDocument) ELSE FileAt(files.overrides, item)

\* <assets>/assets/<namespace>/models/<item>.json
AssetModel(files, namespace, item) == FileAt(files.models, <<namespace, item>>)

\* <assets>/assets/<namespace>/textures/<item>.png with its .mcmeta
TextureFile(files, namespace, item) == FileAt(files.textures, <<namespace, item>>)

\* str.replace(/^minecraft:/, "")
StripMinecraft(c) ==
  IF Len(c) >= 2 /\ c[1] = "minecraft" /\ c[2] = ":" THEN SubSeq(c, 3, Len(c)) ELSE c

\* The name a model argument carries: the string itself, or model.model.
NameOf(arg) ==
  IF arg.t = "model" THEN <<arg.model>>
  ELSE IF arg.t = "str" /\ "s" \in DOMAIN arg THEN <<arg.s>>
  ELSE arg.c

\* merged after lines 538-544: {} for a string, a clone for an object.
InitialMerged(arg) ==
  [model |-> IF arg.t = "model" THEN <<arg.model>> ELSE <<>>,
   x |-> IF arg.t = "model" THEN arg.x ELSE 0,
   y |-> IF arg.t = "model" THEN arg.y ELSE 0,
   z |-> IF arg.t = "model" THEN arg.z ELSE 0,
   allow_invalid_rotations |-> IF arg.t = "model" THEN arg.allow_invalid_rotations ELSE FALSE,
   type |-> IF arg.t = "model" THEN arg.type ELSE "",
   tints |-> IF arg.t = "model" THEN arg.tints ELSE <<>>,
   shader |-> IF arg.t = "model" THEN arg.shader ELSE "none",
   uvlock |-> IF arg.t = "model" THEN arg.uvlock ELSE FALSE,
   overridden |-> FALSE,
   parent |-> <<>>, textures |-> Undef, elements |-> Undef, ambientocclusion |-> Undef,
   display |-> Undef]

\* A merge of the entries in which a later layer replaces the value of a key.
RECURSIVE MergeTexturesLastWins(_, _)
MergeTexturesLastWins(table, entries) ==
  IF entries = <<>> THEN table
  ELSE MergeTexturesLastWins(TexSet(table, Head(entries).k, Head(entries).v),
                             Tail(entries))

\* Lines 607-611.
RECURSIVE MergeTextures(_, _)
MergeTextures(table, entries) ==
  IF entries = <<>> THEN table
  ELSE MergeTextures(IF Has(table, Head(entries).k) THEN table
                     ELSE TexSet(table, Head(entries).k, Head(entries).v),
                     Tail(entries))

\* A display merge that does not look at the type of the model.
MergeDisplayAnyType(type, old, slots) ==
  IF slots.t = "undef" THEN old
  ELSE MergeTextures(IF old.t = "undef" THEN Table(<<>>) ELSE old, slots.e)

\* Lines 612-619: the display of one layer, passed over for a block.
MergeDisplay(type, old, slots) ==
  IF slots.t = "undef" \/ type = "block" THEN old
  ELSE MergeTextures(IF old.t = "undef" THEN Table(<<>>) ELSE old, slots.e)

\* else if (!merged[key]) merged[key] = layer[key]
FirstWrite(old, new) == IF new.t # "undef" /\ Falsy(old) THEN new ELSE old

\* Lines 604-623 for one layer.
MergeLayer(mg, layer) ==
  [mg EXCEPT
     !.textures = IF layer.textures.t = "undef" THEN @
                  ELSE MergeTextures(IF @.t = "undef" THEN Table(<<>>) ELSE @,
                                     layer.textures.e),
     !.display = MergeDisplay(mg.type, @, layer.display),
     !.parent = FirstWrite(Tex(@), Tex(layer.parent)).c,
     !.elements = FirstWrite(@, layer.elements),
     !.ambientocclusion = FirstWrite(@, layer.ambientocclusion)]

\* for (const layer of stack)
RECURSIVE MergeStack(_, _)
MergeStack(mg, layers) ==
  IF layers = <<>> THEN mg ELSE MergeStack(MergeLayer(mg, Head(layers)), Tail(layers))

\* handleNestedTexture(key) reads a property of undefined, or calls
\* startsWith on a sprite that is no string.
NestedThrows(table, key) ==
  \/ TexGet(table, key).t = "undef"
  \/ (TexGet(table, key).t = "obj" /\ TexGet(table, key).sprite.t = "obj")

\* handleNestedTexture(key), lines 626-633.
handleNestedTexture(table, key) ==
  IF TexGet(table, key).t = "str" THEN table
  ELSE IF Falsy(TexGet(table, key).sprite) \/ startsWithHash(TexGet(table, key).sprite)
    THEN TexDelete(table, key)
    ELSE TexSet(table, key, TexGet(table, key).sprite)

\* The key a reference names: value.slice(1).
RefKey(v) == IF Len(v.c) = 2 THEN v.c[2] ELSE ""

\* A catch block that keeps the documents read so far.
CatchStackKept(files, partial) == Append(partial, OverrideModel(files, <<"~missing">>).doc)

\* What the catch block makes of the stack, line 582.
CatchStack(files, partial) == <<OverrideModel(files, <<"~missing">>).doc>>

----------------------------------------------------------------------------
(* resolveModelData: the sprite expansion *)

\* A decoded picture: alpha holds the alpha bytes, row by row.  The sides are
\* powers of two, so that 16 / Math.max(width, height) is a whole number.
Image(width, height, alpha) == [width |-> width, height |-> height, alpha |-> alpha]

Larger(a, b) == IF a >= b THEN a ELSE b
Smaller(a, b) == IF a <= b THEN a ELSE b

\* ctx.drawImage(image, 0, 0, cropW, cropH, 0, 0, cropW, cropH) on a new canvas.
Crop(image, cropW, cropH) ==
  Image(cropW, cropH,
        [i \in 1..(cropW * cropH) |->
           IF (i - 1) % cropW < image.width /\ (i - 1) \div cropW < image.height
             THEN image.alpha[((i - 1) \div cropW) * image.width + ((i - 1) % cropW) + 1]
             ELSE 0])

\* loadMinecraftTexture, lines 502-535, of a file that loadImage can decode.
loadMinecraftTexture(file) ==
  IF file.meta.st # "json" THEN file.image
  ELSE Crop(file.image,
            IF file.meta.doc.width.t # "undef" THEN file.meta.doc.width.n
            ELSE IF file.meta.doc.height.t # "undef" /\ file.meta.doc.height.n # 0
              THEN file.image.width
            ELSE Smaller(file.image.width, file.image.height),
            IF file.meta.doc.height.t # "undef" THEN file.meta.doc.height.n
            ELSE IF file.meta.doc.width.t # "undef" /\ file.meta.doc.width.n # 0
              THEN file.image.height
            ELSE Smaller(file.image.width, file.image.height))

\* key.match(/^layer(\d+)$/): the number of the layer, -1 for no match.
LayerKeys == <<"layer0", "layer1", "layer2">>
LayerIndex(key) ==
  IF \E j \in 1..Len(LayerKeys) : LayerKeys[j] = key
    THEN (CHOOSE j \in 1..Len(LayerKeys) : LayerKeys[j] = key) - 1
    ELSE -1

\* isOpaque(x, y), lines 673-677.
isOpaque(image, x, y) ==
  IF x < 0 \/ x >= image.width \/ y < 0 \/ y >= image.height THEN FALSE
  ELSE image.alpha[y * image.width + x + 1] >= 1

\* Every box with all of its six faces.
FaceNamesAll(image, x, y) == {"north", "south", "up", "down", "west", "east"}

\* The faces of the box of pixel (x, y), lines 697-703.
FaceNames(image, x, y) ==
  {"north", "south"}
    \cup (IF isOpaque(image, x, y - 1) THEN {} ELSE {"up"})
    \cup (IF isOpaque(image, x, y + 1) THEN {} ELSE {"down"})
    \cup (IF isOpaque(image, x - 1, y) THEN {} ELSE {"west"})
    \cup (IF isOpaque(image, x + 1, y) THEN {} ELSE {"east"})

\* The element pushed for pixel (x, y), lines 685-709.
Box(image, x, y, key, depth) ==
  [from |-> <<x * depth, 16 - (y + 1) * depth, 8 - depth \div 2>>,
   to |-> <<x * depth + depth, 16 - (y + 1) * depth + depth, 8 + depth \div 2>>,
   faces |-> [f \in FaceNames(image, x, y) |->
                [texture |-> <<"#", key>>,
                 uv |-> <<(x * 16) \div image.width, (y * 16) \div image.height,
                          ((x + 1) * 16) \div image.width,
                          ((y + 1) * 16) \div image.height>>,
                 tintindex |-> LayerIndex(key)]]]

\* The two loops of lines 679-711, from pixel i (row by row) on.
RECURSIVE Boxes(_, _, _)
Boxes(image, i, key) ==
  IF i >= image.width * image.height THEN <<>>
  ELSE (IF image.alpha[i + 1] = 0 THEN <<>>
        ELSE <<Box(image, i % image.width, i \div image.width, key,
                   16 \div Larger(image.width, image.height))>>)
       \o Boxes(image, i + 1, key)

\* The file line 663 loads for a texture reference.
LayerFile(files, ref) ==
  IF ref.t # "str" THEN Missing
  ELSE TextureFile(files, resolveNamespace(ref.c).namespace,
                   resolveNamespace(ref.c).item)

\* for (const [key, texRef] of Object.entries(merged.textures)), lines 656-713:
\* the elements, or the error of a texture that does not load.
RECURSIVE ExpandLayers(_, _, _)
ExpandLayers(entries, files, elements) ==
  IF entries = <<>> THEN [threw |-> FALSE, elements |-> elements]
  ELSE IF LayerIndex(Head(entries).k) < 0 THEN ExpandLayers(Tail(entries), files, elements)
  ELSE IF LayerFile(files, Head(entries).v).st # "image"
    THEN [threw |-> TRUE, elements |-> elements]
  ELSE ExpandLayers(Tail(entries), files,
                    elements \o Boxes(loadMinecraftTexture(LayerFile(files, Head(entries).v)),
                                      0, Head(entries).k))

----------------------------------------------------------------------------
(* resolveModelData: the steps *)

\* The documents of the walk that stack keeps: a chain of parents that comes
\* back to itself has no end, and the walk goes on with the documents past
\* this bound left out of stack.
MaxStack == 3

\* Lines 538-559: the clone, the first name, the rotation check.
ResolveBegin ==
  /\ call = "resolveModelData" /\ pc = "start"
  /\ current' = resolveNamespace(NameOf(model))
  /\ stack' = <<>>
  /\ IF ~InitialMerged(model).allow_invalid_rotations /\ InvalidRotation(InitialMerged(model))
       THEN /\ merged' = [InitialMerged(model) EXCEPT !.x = 0, !.y = 0, !.z = 0]
            /\ pc' = "catch"
       ELSE /\ merged' = InitialMerged(model)
            /\ pc' = "walk"
  /\ UNCHANGED <<call, ret, blockVars, display, model, pack, keys, value, failed, table0>>
  /\ UNCHANGED loadVars
  /\ UNCHANGED batchVars

\* The file one iteration of the walk reads, lines 561-569.
WalkFile(files, cur) ==
  IF OverrideModel(files, cur.item).st # "missing"
    THEN OverrideModel(files, cur.item)
    ELSE AssetModel(files, cur.namespace, cur.item)

\* Lines 561-579: one iteration of while (true).
WalkStep ==
  /\ call = "resolveModelData" /\ pc = "walk"
  /\ merged' = IF OverrideModel(pack, current.item).st # "missing"
                 THEN [merged EXCEPT !.overridden = TRUE] ELSE merged
  /\ IF WalkFile(pack, current).st # "json"
       THEN /\ pc' = "catch"
            /\ UNCHANGED <<stack, current>>
       ELSE /\ stack' = IF Len(stack) < MaxStack
                           THEN Append(stack, WalkFile(pack, current).doc) ELSE stack
            /\ IF WalkFile(pack, current).doc.parent = <<>>
                    \/ Head(WalkFile(pack, current).doc.parent) = "builtin"
                 THEN pc' = "merge" /\ current' = current
                 ELSE /\ pc' = "walk"
                      /\ current' = resolveNamespace(
                                      StripMinecraft(WalkFile(pack, current).doc.parent))
  /\ UNCHANGED <<call, ret, blockVars, display, model, pack, keys, value, failed, table0>>
  /\ UNCHANGED loadVars
  /\ UNCHANGED batchVars

\* Lines 581-584.
CatchFailure ==
  /\ call = "resolveModelData" /\ pc = "catch"
  /\ stack' = CatchStack(pack, stack)
  /\ merged' = [merged EXCEPT !.model = <<"~missing.json">>]
  /\ failed' = TRUE
  /\ pc' = "merge"
  /\ UNCHANGED <<call, ret, blockVars, display, model, pack, current, keys, value, table0>>
  /\ UNCHANGED loadVars
  /\ UNCHANGED batchVars

\* Lines 586-624; merged.special is set by item definitions only, and no
\* model argument here has it.
MergeLayers ==
  /\ call = "resolveModelData" /\ pc = "merge"
  /\ merged' = MergeStack(merged, stack)
  /\ table0' = merged'.textures
  /\ keys' = IF merged'.textures.t = "undef" THEN <<>>
             ELSE [j \in 1..Len(merged'.textures.e) |-> merged'.textures.e[j].k]
  /\ idx' = 1
  /\ pc' = "textures"
  /\ UNCHANGED <<call, ret, blockstate, data, overrideFile, assetFile, json, scored,
                 scoredParts, ranges, usedKeyValues, accepted, models, prop, raw,
                 display, model, pack, stack, current, value, failed>>
  /\ UNCHANGED loadVars
  /\ UNCHANGED batchVars

\* Lines 635-637: the next key of the for-in, which passes over a key that
\* was deleted before its turn.
TexturesNext ==
  /\ call = "resolveModelData" /\ pc = "textures" /\ idx <= Len(keys)
  /\ IF ~Has(merged.textures, keys[idx])
       THEN /\ idx' = idx + 1
            /\ UNCHANGED <<pc, ret, merged, value>>
       ELSE IF NestedThrows(merged.textures, keys[idx])
         THEN /\ ret' = Threw
              /\ pc' = "done"
              /\ UNCHANGED <<idx, merged, value>>
       ELSE /\ merged' = [merged EXCEPT !.textures = handleNestedTexture(@, keys[idx])]
            /\ value' = TexGet(merged'.textures, keys[idx])
            /\ pc' = "while"
            /\ UNCHANGED <<idx, ret>>
  /\ UNCHANGED <<call, blockstate, data, overrideFile, assetFile, json, scored,
                 scoredParts, ranges, usedKeyValues, accepted, models, prop, raw,
                 display, model, pack, stack, current, keys, failed, table0>>
  /\ UNCHANGED loadVars
  /\ UNCHANGED batchVars

\* Lines 638-646: one iteration of while (value?.startsWith("#")).
TexturesWhile ==
  /\ call = "resolveModelData" /\ pc = "while" /\ startsWithHash(value)
  /\ IF NestedThrows(merged.textures, RefKey(value))
       THEN /\ ret' = Threw
            /\ pc' = "done"
            /\ UNCHANGED <<merged, value>>
       ELSE IF value = TexGet(handleNestedTexture(merged.textures, RefKey(value)), keys[idx])
         THEN /\ merged' = [merged EXCEPT !.textures =
                              TexDelete(handleNestedTexture(@, RefKey(value)), keys[idx])]
              /\ pc' = "assign"
              /\ UNCHANGED <<ret, value>>
       ELSE /\ merged' = [merged EXCEPT !.textures = handleNestedTexture(@, RefKey(value))]
            /\ value' = TexGet(merged'.textures, RefKey(value))
            /\ UNCHANGED <<pc, ret>>
  /\ UNCHANGED <<call, blockVars, display, model, pack, stack, current, keys, failed,
                 table0>>
  /\ UNCHANGED loadVars
  /\ UNCHANGED batchVars

\* Lines 647-651, after the break or the end of the while.
TexturesAssign ==
  /\ call = "resolveModelData"
  /\ pc = "assign" \/ (pc = "while" /\ ~startsWithHash(value))
  /\ merged' = [merged EXCEPT !.textures =
                  IF Falsy(value) THEN TexDelete(TexSet(@, keys[idx], value), keys[idx])
                  ELSE TexSet(@, keys[idx], value)]
  /\ idx' = idx + 1
  /\ pc' = "textures"
  /\ UNCHANGED <<call, ret, blockstate, data, overrideFile, assetFile, json, scored,
                 scoredParts, ranges, usedKeyValues, accepted, models, prop, raw,
                 display, model, pack, stack, current, keys, value, failed, table0>>
  /\ UNCHANGED loadVars
  /\ UNCHANGED batchVars

\* The for-in is over.
TexturesDone ==
  /\ call = "resolveModelData" /\ pc = "textures" /\ idx > Len(keys)
  /\ pc' = "sprite"
  /\ UNCHANGED <<call, ret, blockVars, resolveVars>>
  /\ UNCHANGED loadVars
  /\ UNCHANGED batchVars

\* Lines 654-714.
SpriteExpand ==
  /\ call = "resolveModelData" /\ pc = "sprite"
  /\ IF StripMinecraft(stack[Len(stack)].parent) = <<"builtin", "/generated">>
          /\ Falsy(merged.elements)
       THEN IF merged.textures.t = "undef"
                 \/ ExpandLayers(merged.textures.e, pack, <<>>).threw
              THEN /\ ret' = Threw
                   /\ pc' = "done"
                   /\ merged' = [merged EXCEPT !.elements = L(<<>>)]
              ELSE /\ merged' = [merged EXCEPT !.elements =
                                   L(ExpandLayers(merged.textures.e, pack, <<>>).elements)]
                   /\ pc' = "return"
                   /\ ret' = ret
       ELSE /\ pc' = "return"
            /\ UNCHANGED <<merged, ret>>
  /\ UNCHANGED <<call, blockVars, display, model, pack, stack, current, keys, value,
                 failed, table0>>
  /\ UNCHANGED loadVars
  /\ UNCHANGED batchVars

\* Lines 716-719.
ReturnMerged ==
  /\ call = "resolveModelData" /\ pc = "return"
  /\ merged' = [merged EXCEPT !.parent = <<>>, !.model = <<>>]
  /\ ret' = Returned(merged')
  /\ pc' = "done"
  /\ UNCHANGED <<call, blockVars, display, model, pack, stack, current, keys, value,
                 failed, table0>>
  /\ UNCHANGED loadVars
  /\ UNCHANGED batchVars

----------------------------------------------------------------------------
(* parseItemDefinition *)

\* An item model definition is a record of exactly the keys its JSON object
\* has; strings that name a type or a property are token sequences.
IsObject(def) == "t" \notin DOMAIN def

\* def[k]
Field(def, k) == IF k \in DOMAIN def THEN def[k] ELSE Undef

\* normalize(val), lines 371-373, for a string kept as its tokens.
normalize(val) == StripMinecraft(val)

\* normalize(def.type): String(undefined) is "undefined".
TypeOf(def) == IF "type" \in DOMAIN def THEN normalize(def.type) ELSE <<"undefined">>

\* String(v) of a context value, as tokens.
StringOf(v) ==
  IF v.t # "str" THEN <<toString(v)>>
  ELSE IF "c" \in DOMAIN v THEN v.c
  ELSE IF v.s = "" THEN <<>> ELSE <<v.s>>

\* data[prop], prop being normalize(def.property).
ContextValue(d, def) ==
  IF Len(normalize(def.property)) = 1 THEN Get(d, normalize(def.property)[1]) ELSE Undef

\* The value a select matches its cases against, lines 449-453.
SelectValue(d, def, disp) ==
  IF normalize(StringOf(Coalesce(ContextValue(d, def), S("")))) = <<>>
       /\ normalize(def.property) = <<"display_context">>
    THEN <<disp>>
    ELSE normalize(StringOf(Coalesce(ContextValue(d, def), S(""))))

\* The callback of def.cases.find, lines 455-457.
CaseMatches(c, v) ==
  IF c.when.t = "list"
    THEN \E j \in 1..Len(c.when.l) : normalize(c.when.l[j]) = v
    ELSE normalize(c.when.c) = v

\* A select that takes the last of the cases that match.
SelectModelLast(def, v) ==
  IF \E j \in 1..Len(def.cases) : CaseMatches(def.cases[j], v)
    THEN def.cases[CHOOSE j \in 1..Len(def.cases) :
                     /\ CaseMatches(def.cases[j], v)
                     /\ \A h \in (j + 1)..Len(def.cases) : ~CaseMatches(def.cases[h], v)].model
    ELSE Field(def, "fallback")

\* matched?.model || def.fallback
SelectModel(def, v) ==
  IF \E j \in 1..Len(def.cases) : CaseMatches(def.cases[j], v)
    THEN LET first == CHOOSE j \in 1..Len(def.cases) :
                        /\ CaseMatches(def.cases[j], v)
                        /\ \A h \in 1..(j - 1) : ~CaseMatches(def.cases[h], v)
         IN IF IsObject(Field(def.cases[first], "model"))
              THEN def.cases[first].model ELSE Field(def, "fallback")
    ELSE Field(def, "fallback")

\* Lines 476-479, from entry j on: the last entry whose threshold the scaled
\* value reaches.  A context value that is no number gives NaN, which reaches
\* no threshold.
RECURSIVE Dispatch(_, _, _, _)
Dispatch(entries, j, scaled, chosen) ==
  IF j > Len(entries) THEN chosen
  ELSE Dispatch(entries, j + 1, scaled,
                IF scaled.t = "num" /\ scaled.n >= entries[j].threshold
                  THEN Field(entries[j], "model") ELSE chosen)

\* def.entries || []
Entries(def) == IF "entries" \in DOMAIN def THEN def.entries.l ELSE <<>>

\* (def.scale ?? 1) * parseFloat(data[prop] ?? 0)
Scaled(d, def) ==
  IF Coalesce(ContextValue(d, def), N(0)).t = "num"
    THEN N((IF "scale" \in DOMAIN def THEN def.scale ELSE 1)
             * Coalesce(ContextValue(d, def), N(0)).n)
    ELSE Undef

\* resolveItemModel, lines 426-491.
RECURSIVE resolveItemModel(_, _, _)
RECURSIVE Composite(_, _, _, _)

Composite(list, j, d, disp) ==
  IF j > Len(list) THEN <<>>
  ELSE resolveItemModel(list[j], d, disp) \o Composite(list, j + 1, d, disp)

resolveItemModel(def, d, disp) ==
  IF ~IsObject(def) THEN <<>>
  ELSE IF TypeOf(def) = <<"special">>
    THEN <<[model |-> Field(def, "base"),
            special |-> [def.model EXCEPT !.type = normalize(@)]]>>
  ELSE IF TypeOf(def) = <<"composite">> THEN Composite(def.models, 1, d, disp)
  ELSE IF TypeOf(def) = <<"select">>
    THEN resolveItemModel(SelectModel(def, SelectValue(d, def, disp)), d, disp)
  ELSE IF TypeOf(def) = <<"condition">>
    THEN resolveItemModel(IF normalize(StringOf(ContextValue(d, def))) = <<"true">>
                            THEN Field(def, "on_true") ELSE Field(def, "on_false"),
                          d, disp)
  ELSE IF TypeOf(def) = <<"range_dispatch">>
    THEN resolveItemModel(Dispatch(Entries(def), 1, Scaled(d, def),
                                   Field(def, "fallback")),
                          d, disp)
  ELSE IF TypeOf(def) = <<"model">> THEN <<def>>
  ELSE <<>>

HexDigits == <<"0", "1", "2", "3", "4", "5", "6", "7", "8", "9", "a", "b", "c", "d", "e", "f">>

\* "#" + (v >>> 0).toString(16).padStart(8, "0").slice(2), line 413, for a
\* 32-bit v: the six low digits.
TintHex(v) ==
  "#" \o HexDigits[((v \div 1048576) % 16) + 1] \o HexDigits[((v \div 65536) % 16) + 1]
      \o HexDigits[((v \div 4096) % 16) + 1] \o HexDigits[((v \div 256) % 16) + 1]
      \o HexDigits[((v \div 16) % 16) + 1] \o HexDigits[(v % 16) + 1]

\* Lines 409-416 for one tint.
TintOf(tint) ==
  IF TypeOf(tint) = <<"grass">> THEN getColorMapTint("grass")
  ELSE IF (Field(tint, "value").t = "num" /\ Field(tint, "value").n # 0)
            \/ (Field(tint, "default").t = "num" /\ Field(tint, "default").n # 0)
    THEN TintHex(Coalesce(Field(tint, "value"), Field(tint, "default")).n)
  ELSE "#FFFFFF"

\* Lines 405-421 for one model.
ItemModel(m) ==
  IF "tints" \in DOMAIN m
    THEN [m EXCEPT !.tints = [j \in 1..Len(m.tints) |-> TintOf(m.tints[j])]]
  ELSE IF Cardinality(DOMAIN m) = 1 THEN m.model
  ELSE m

\* Lines 400-402: the read of the item definition is not guarded.
ReadItemDefinition ==
  /\ call = "parseItemDefinition" /\ pc = "start"
  /\ IF assetFile.st = "json"
       THEN /\ json' = assetFile.doc
            /\ pc' = "resolve"
            /\ ret' = ret
       ELSE /\ json' = json
            /\ pc' = "done"
            /\ ret' = Threw
  /\ UNCHANGED <<call, blockstate, data, overrideFile, assetFile, scored, scoredParts,
                 ranges, usedKeyValues, accepted, models, idx, prop, raw, resolveVars>>
  /\ UNCHANGED loadVars
  /\ UNCHANGED batchVars

\* Lines 403-423.
ResolveItem ==
  /\ call = "parseItemDefinition" /\ pc = "resolve"
  /\ models' = [j \in 1..Len(resolveItemModel(Field(json, "model"), data, display)) |->
                  ItemModel(resolveItemModel(Field(json, "model"), data, display)[j])]
  /\ ret' = Returned(models')
  /\ pc' = "done"
  /\ UNCHANGED <<call, blockstate, data, overrideFile, assetFile, json, scored,
                 scoredParts, ranges, usedKeyValues, accepted, idx, prop, raw, resolveVars>>
  /\ UNCHANGED loadVars
  /\ UNCHANGED batchVars

----------------------------------------------------------------------------
(* loadModel *)

\* A mesh: the element it was made of, the UV corners written for each face
\* the element has, in sixteenths, the materials in faceOrder, and whether it
\* sits in a rotated group.
Mesh(element, uv, materials, rotated) ==
  [element |-> element, uv |-> uv, materials |-> materials, rotated |-> rotated]

NoMesh == Mesh(0, <<>>, <<>>, FALSE)

\* The variables of the parsers but the loop index.
parseVars == <<blockstate, data, overrideFile, assetFile, json, scored, scoredParts,
               ranges, usedKeyValues, accepted, models, prop, raw>>

faceOrder == <<"west", "east", "up", "down", "south", "north">>

\* model.elements || []
Elements(m) == IF m.elements.t = "list" THEN m.elements.l ELSE <<>>

\* [u1, v1, u2, v2] of a face without uv, lines 1019-1053.
DerivedUV(el, f) ==
  CASE f = "up" -> <<el.from[1], el.from[3], el.to[1], el.to[3]>>
    [] f = "down" -> <<el.from[1], 16 - el.to[3], el.to[1], 16 - el.from[3]>>
    [] f = "north" -> <<16 - el.to[1], 16 - el.to[2], 16 - el.from[1], 16 - el.from[2]>>
    [] f = "south" -> <<el.from[1], 16 - el.to[2], el.to[1], 16 - el.from[2]>>
    [] f = "east" -> <<16 - el.to[3], 16 - el.to[2], 16 - el.from[3], 16 - el.from[2]>>
    [] f = "west" -> <<el.from[3], 16 - el.to[2], el.to[3], 16 - el.from[2]>>

\* let [u1, v1, u2, v2] = face.uv || [], or the derived ones.
Bounds(el, f) == IF "uv" \in DOMAIN el.faces[f] THEN el.faces[f].uv ELSE DerivedUV(el, f)

\* The four corners, lines 1055-1060.
Corners(b) == << <<b[3], b[2]>>, <<b[1], b[2]>>, <<b[3], b[4]>>, <<b[1], b[4]>> >>

\* face.rotation ?? 0 and the permutation of lines 1062-1065.
FaceTurn(uv, rot) ==
  CASE rot = 90 -> <<uv[2], uv[4], uv[1], uv[3]>>
    [] rot = 180 -> <<uv[4], uv[3], uv[2], uv[1]>>
    [] rot = 270 -> <<uv[3], uv[1], uv[4], uv[2]>>
    [] OTHER -> uv

\* ((a % 360) + 360) % 360
Mod360(a) == (JsRem(a, 360) + 360) % 360

\* vec.rotateAround(center, rad) about (8, 8) for an angle that is a multiple
\* of 90 degrees, without the rounding of the sine and cosine.
rotateAround(p, angle) ==
  CASE Mod360(angle) = 90 -> <<16 - p[2], p[1]>>
    [] Mod360(angle) = 180 -> <<16 - p[1], 16 - p[2]>>
    [] Mod360(angle) = 270 -> <<p[2], 16 - p[1]>>
    [] OTHER -> p

\* uv.map(([u, v]) => ... rotateAround ...)
TurnAll(uv, angle) == [j \in 1..Len(uv) |-> rotateAround(uv[j], angle)]

\* The switch of lines 1076-1124: newDirection and angle for model.x.
XLock(f, m) ==
  CASE f = "east" -> [dir |-> f, angle |-> m.x]
    [] f = "west" -> [dir |-> f, angle |-> -m.x]
    [] f = "north" ->
         (CASE Mod360(m.x) = 90 -> [dir |-> "up", angle |-> 180]
            [] Mod360(m.x) = 180 -> [dir |-> "south", angle |-> 180]
            [] Mod360(m.x) = 270 -> [dir |-> "down", angle |-> 180]
            [] OTHER -> [dir |-> f, angle |-> 0])
    [] f = "south" ->
         (CASE Mod360(m.x) = 90 -> [dir |-> "down", angle |-> 0]
            [] Mod360(m.x) = 180 -> [dir |-> "north", angle |-> 180]
            [] Mod360(m.x) = 270 -> [dir |-> "up", angle |-> 0]
            [] OTHER -> [dir |-> f, angle |-> 0])
    [] f = "up" ->
         (CASE Mod360(m.x) = 90 -> [dir |-> "north", angle |-> 180]
            [] Mod360(m.x) = 180 -> [dir |-> "down", angle |-> 0]
            [] Mod360(m.x) = 270 -> [dir |-> "south", angle |-> 0]
            [] OTHER -> [dir |-> f, angle |-> 0])
    [] f = "down" ->
         (CASE Mod360(m.x) = 90 -> [dir |-> "south", angle |-> 0]
            [] Mod360(m.x) = 180 -> [dir |-> "up", angle |-> 0]
            [] Mod360(m.x) = 270 -> [dir |-> "north", angle |-> 180]
            [] OTHER -> [dir |-> f, angle |-> 0])

\* newDirection after if (model.x) { ... }
DirX(f, m) == IF m.x = 0 THEN f ELSE XLock(f, m).dir

\* The quarter turns of lines 1138-1153 about the vertical.
YDir(dir, y) ==
  CASE y = 90 ->
         (CASE dir = "north" -> "east" [] dir = "east" -> "south"
            [] dir = "south" -> "west" [] dir = "west" -> "north" [] OTHER -> dir)
    [] y = 180 ->
         (CASE dir = "north" -> "south" [] dir = "south" -> "north"
            [] dir = "east" -> "west" [] dir = "west" -> "east" [] OTHER -> dir)
    [] y = 270 ->
         (CASE dir = "north" -> "west" [] dir = "west" -> "south"
            [] dir = "south" -> "east" [] dir = "east" -> "north" [] OTHER -> dir)
    [] OTHER -> dir

\* newDirection after if (model.y) { ... }
DirY(f, m) == IF m.y = 0 THEN DirX(f, m) ELSE YDir(DirX(f, m), Mod360(m.y))

\* The switch of lines 1175-1218: angle for model.z.
ZAngle(dir, m) ==
  CASE dir = "north" -> -m.z
    [] dir = "south" -> m.z
    [] OTHER -> (CASE Mod360(m.z) = 90 -> 90 [] Mod360(m.z) = 180 -> 180
                   [] Mod360(m.z) = 270 -> -90 [] OTHER -> 0)

\* if (model.x) { ... }, lines 1072-1133.
LockX(uv, f, m) == IF m.x = 0 THEN uv ELSE TurnAll(uv, XLock(f, m).angle)

\* if (model.y) { ... }, lines 1135-1169: (newDirection === "up") ^ !!(x % 180).
LockY(uv, f, m) ==
  IF m.y = 0 \/ DirY(f, m) \notin {"up", "down"} THEN uv
  ELSE TurnAll(uv, IF (DirY(f, m) = "up") # (Mod360(m.x) % 180 # 0) THEN m.y ELSE -m.y)

\* if (model.z) { ... }, lines 1171-1227.
LockZ(uv, f, m) == IF m.z = 0 THEN uv ELSE TurnAll(uv, ZAngle(DirY(f, m), m))

\* A lock that gives the up and down faces a half turn whatever the rotation.
UVLockHalfTurn(uv, f, m) == IF f \in {"up", "down"} THEN TurnAll(uv, 180) ELSE uv

\* if (model?.uvlock) { ... }, lines 1067-1228.
UVLock(uv, f, m) == LockZ(LockY(LockX(uv, f, m), f, m), f, m)

\* The corners written for face f of el, lines 1014-1230, in sixteenths.
FaceUV(el, f, m) ==
  IF m.uvlock
    THEN UVLock(FaceTurn(Corners(Bounds(el, f)),
                         IF "rotation" \in DOMAIN el.faces[f] THEN el.faces[f].rotation ELSE 0),
                f, m)
    ELSE FaceTurn(Corners(Bounds(el, f)),
                  IF "rotation" \in DOMAIN el.faces[f] THEN el.faces[f].rotation ELSE 0)

\* defaults/missing.png, the picture of a texture that is not there.
missing == Image(1, 1, <<255>>)

\* A texture: the picture it was made of and the tint blended into it.
Texture(image, tint) == [image |-> image, tint |-> tint]

Material(texture, shader) == [visible |-> TRUE, map |-> texture, shader |-> shader]
Invisible == [visible |-> FALSE]

\* if (texRef && !texRef.startsWith("#")) texRef = "#" + texRef
Hashed(c) == IF c # <<>> /\ Head(c) # "#" THEN <<"#">> \o c ELSE c

\* model.tints[face.tintindex], "" for undefined.
FaceTint(m, fc) ==
  IF "tintindex" \in DOMAIN fc /\ fc.tintindex + 1 \in 1..Len(m.tints)
    THEN m.tints[fc.tintindex + 1] ELSE ""

\* The file of resolveTexturePath(id).
TexturePath(files, id) ==
  TextureFile(files, resolveNamespace(id.c).namespace, resolveNamespace(id.c).item)

\* loadModelTexture(id, tint), lines 796-827: the texture, the cache after
\* the call, and whether loadImage threw.
loadModelTexture(cache, files, id, tint) ==
  IF Has(Table(cache), id)
    THEN [threw |-> FALSE, texture |-> TexGet(Table(cache), id), cache |-> cache]
  ELSE IF Falsy(id) \/ TexturePath(files, id).st = "missing"
    THEN [threw |-> FALSE, texture |-> Texture(missing, tint),
          cache |-> TexSet(Table(cache), id, Texture(missing, tint)).e]
  ELSE IF TexturePath(files, id).st # "image"
    THEN [threw |-> TRUE, texture |-> Texture(missing, tint), cache |-> cache]
  ELSE [threw |-> FALSE,
        texture |-> Texture(loadMinecraftTexture(TexturePath(files, id)), tint),
        cache |-> TexSet(Table(cache), id,
                         Texture(loadMinecraftTexture(TexturePath(files, id)), tint)).e]

\* A check that asks for the axis alone.
InvalidElementRotationAxisOnly(el) ==
  "rotation" \in DOMAIN el /\ "axis" \notin DOMAIN el.rotation

\* Lines 1279-1286: the rotation has an angle or an axis, and not both.
InvalidElementRotation(el) ==
  /\ "rotation" \in DOMAIN el
  /\ ("angle" \in DOMAIN el.rotation \/ "axis" \in DOMAIN el.rotation)
  /\ ("angle" \notin DOMAIN el.rotation \/ "axis" \notin DOMAIN el.rotation)

\* What loadModel adds to the scene for the resolved model ~missing.
PlaceholderGroup == <<Mesh(0, <<>>, <<>>, FALSE)>>

\* Lines 788-993.  The display transform and the face colours, lines 829-965
\* and 1232-1244, change neither the UVs nor what is added to the scene and
\* are left out.
LoadBegin ==
  /\ call = "loadModel" /\ pc = "start"
  /\ group' = <<>>
  /\ textureCache' = <<>>
  /\ idx' = 1
  /\ pc' = "element"
  /\ UNCHANGED <<call, ret, parseVars, resolveVars, scene, mesh, face, texRef>>
  /\ UNCHANGED batchVars

\* Lines 994-1247: the geometry of the next element and its UVs.
LoadGeometry ==
  /\ call = "loadModel" /\ pc = "element" /\ idx <= Len(Elements(merged))
  /\ mesh' = Mesh(idx,
                  [f \in DOMAIN Elements(merged)[idx].faces |->
                     FaceUV(Elements(merged)[idx], f, merged)],
                  <<>>, "rotation" \in DOMAIN Elements(merged)[idx])
  /\ face' = 1
  /\ pc' = "material"
  /\ UNCHANGED <<call, ret, parseVars, idx, resolveVars, scene, group, texRef,
                 textureCache>>
  /\ UNCHANGED batchVars

\* Lines 1249-1263: the next face of faceOrder, up to the while.
BindFace ==
  /\ call = "loadModel" /\ pc = "material" /\ face <= Len(faceOrder)
  /\ IF faceOrder[face] \notin DOMAIN Elements(merged)[idx].faces
          \/ "texture" \notin DOMAIN Elements(merged)[idx].faces[faceOrder[face]]
       THEN /\ mesh' = [mesh EXCEPT !.materials = Append(@, Invisible)]
            /\ face' = face + 1
            /\ UNCHANGED <<pc, texRef>>
       ELSE /\ texRef' = Tex(Hashed(Elements(merged)[idx].faces[faceOrder[face]].texture))
            /\ pc' = "follow"
            /\ UNCHANGED <<mesh, face>>
  /\ UNCHANGED <<call, ret, parseVars, idx, resolveVars, scene, group, textureCache>>
  /\ UNCHANGED batchVars

\* Lines 1265-1267: one iteration of while (texRef && texRef.startsWith("#")).
FollowRef ==
  /\ call = "loadModel" /\ pc = "follow" /\ startsWithHash(texRef)
  /\ texRef' = IF merged.textures.t = "table"
                 THEN TexGet(merged.textures, RefKey(texRef)) ELSE Undef
  /\ UNCHANGED <<call, pc, ret, parseVars, idx, resolveVars, scene, group, mesh, face,
                 textureCache>>
  /\ UNCHANGED batchVars

\* Line 1269: the material of the face, after the while.  A texture that is
\* an object has no startsWith.
LoadFaceTexture ==
  /\ call = "loadModel" /\ pc = "follow" /\ ~startsWithHash(texRef)
  /\ IF texRef.t = "obj"
          \/ loadModelTexture(textureCache, pack, texRef,
                              FaceTint(merged, Elements(merged)[idx].faces[faceOrder[face]])).threw
       THEN /\ ret' = Threw
            /\ pc' = "done"
            /\ UNCHANGED <<mesh, face, textureCache>>
       ELSE /\ mesh' = [mesh EXCEPT !.materials =
                          Append(@, Material(
                            loadModelTexture(textureCache, pack, texRef,
                              FaceTint(merged, Elements(merged)[idx].faces[faceOrder[face]])).texture,
                            merged.shader))]
            /\ textureCache' =
                 loadModelTexture(textureCache, pack, texRef,
                   FaceTint(merged, Elements(merged)[idx].faces[faceOrder[face]])).cache
            /\ face' = face + 1
            /\ pc' = "material"
            /\ ret' = ret
  /\ UNCHANGED <<call, parseVars, idx, resolveVars, scene, group, texRef>>
  /\ UNCHANGED batchVars

\* Lines 1271-1316: the mesh goes into containerGroup, in a rotated group
\* for an element with a rotation; a rotation with an axis or an angle and
\* not both makes loadModel load the resolved model ~missing and return.
PlaceMesh ==
  /\ call = "loadModel" /\ pc = "material" /\ face > Len(faceOrder)
  /\ IF InvalidElementRotation(Elements(merged)[idx])
       THEN /\ scene' = Append(scene, PlaceholderGroup)
            /\ ret' = Returned(Undef)
            /\ pc' = "done"
            /\ UNCHANGED <<idx, group>>
       ELSE IF "rotation" \in DOMAIN Elements(merged)[idx]
                 /\ "origin" \notin DOMAIN Elements(merged)[idx].rotation
         THEN /\ ret' = Threw
              /\ pc' = "done"
              /\ UNCHANGED <<idx, group, scene>>
       ELSE /\ group' = Append(group, mesh)
            /\ idx' = idx + 1
            /\ pc' = "element"
            /\ UNCHANGED <<ret, scene>>
  /\ UNCHANGED <<call, parseVars, resolveVars, mesh, face, texRef, textureCache>>
  /\ UNCHANGED batchVars

\* Lines 1319-1345: after the last element the group is added to the scene.
AddToScene ==
  /\ call = "loadModel" /\ pc = "element" /\ idx > Len(Elements(merged))
  /\ scene' = Append(scene, group)
  /\ ret' = Returned(Undef)
  /\ pc' = "done"
  /\ UNCHANGED <<call, parseVars, idx, resolveVars, group, mesh, face, texRef,
                 textureCache>>
  /\ UNCHANGED batchVars

\* The loop of the drivers, index.js lines 27-31 and render_overrides.js
\* lines 37-41: what resolveModelData returned is the model of loadModel.
LoadResolved ==
  /\ call = "resolveModelData" /\ pc = "done" /\ ret.st = "returned"
  /\ call' = "loadModel"
  /\ pc' = "start"
  /\ merged' = ret.v
  /\ ret' = Pending
  /\ UNCHANGED <<parseVars, idx, display, model, pack, stack, current, keys, value,
                 failed, table0, loadVars, batchVars>>

----------------------------------------------------------------------------
(* A batch of calls *)

\* The variables of the running call, as an await keeps them while another
\* call of the batch runs.
Frame ==
  [call |-> call, pc |-> pc, ret |-> ret, blockstate |-> blockstate, data |-> data,
   overrideFile |-> overrideFile, assetFile |-> assetFile, json |-> json,
   scored |-> scored, scoredParts |-> scoredParts, ranges |-> ranges,
   usedKeyValues |-> usedKeyValues, accepted |-> accepted, models |-> models,
   idx |-> idx, prop |-> prop, raw |-> raw, display |-> display, model |-> model,
   pack |-> pack, merged |-> merged, stack |-> stack, current |-> current,
   keys |-> keys, value |-> value, failed |-> failed, table0 |-> table0,
   scene |-> scene, group |-> group, mesh |-> mesh, face |-> face, texRef |-> texRef,
   textureCache |-> textureCache]

\* The running call is the call f.
Running(f) ==
  /\ call = f.call /\ pc = f.pc /\ ret = f.ret /\ blockstate = f.blockstate
  /\ data = f.data /\ overrideFile = f.overrideFile /\ assetFile = f.assetFile
  /\ json = f.json /\ scored = f.scored /\ scoredParts = f.scoredParts
  /\ ranges = f.ranges /\ usedKeyValues = f.usedKeyValues /\ accepted = f.accepted
  /\ models = f.models /\ idx = f.idx /\ prop = f.prop /\ raw = f.raw
  /\ display = f.display /\ model = f.model /\ pack = f.pack /\ merged = f.merged
  /\ stack = f.stack /\ current = f.current /\ keys = f.keys /\ value = f.value
  /\ failed = f.failed /\ table0 = f.table0 /\ scene = f.scene /\ group = f.group
  /\ mesh = f.mesh /\ face = f.face /\ texRef = f.texRef
  /\ textureCache = f.textureCache

\* One map for all the invocations of loadModel.
SharedCache(own, last) == last

\* const textureCache = new Map(), line 789: the map of the invocation that
\* goes on, whatever the call that ran last left in its own.
OwnCache(own, last) == own

\* The running call is over or waits: for a file of parseBlockstate (lines
\* 193-194, 301-308) or of parseItemDefinition (lines 402-411), for a document
\* of the walk or of the catch block (lines 562-582), for a picture (lines
\* 663, 1269), for the placeholder (line 1283).
AtAwait ==
  \/ pc = "done"
  \/ call = "parseBlockstate" /\ pc \in {"start", "decorate"}
  \/ call = "parseItemDefinition" /\ pc \in {"start", "resolve"}
  \/ call = "resolveModelData" /\ pc \in {"walk", "catch", "sprite"}
  \/ call = "loadModel" /\ pc = "follow" /\ ~startsWithHash(texRef)
  \/ call = "loadModel" /\ pc = "material" /\ face > Len(faceOrder)

\* await Promise.all(chunk.map(handler)), render_overrides.js lines 23-28:
\* while the running call waits, a call of the chunk that is not over goes on.
Yield ==
  /\ AtAwait
  /\ \E j \in DOMAIN calls \ {self} :
       /\ calls[j].pc # "done"
       /\ calls' = [calls EXCEPT ![self] = Frame]
       /\ self' = j
       /\ call' = calls[j].call /\ pc' = calls[j].pc /\ ret' = calls[j].ret
       /\ blockstate' = calls[j].blockstate /\ data' = calls[j].data
       /\ overrideFile' = calls[j].overrideFile /\ assetFile' = calls[j].assetFile
       /\ json' = calls[j].json /\ scored' = calls[j].scored
       /\ scoredParts' = calls[j].scoredParts /\ ranges' = calls[j].ranges
       /\ usedKeyValues' = calls[j].usedKeyValues /\ accepted' = calls[j].accepted
       /\ models' = calls[j].models /\ idx' = calls[j].idx /\ prop' = calls[j].prop
       /\ raw' = calls[j].raw /\ display' = calls[j].display /\ model' = calls[j].model
       /\ pack' = calls[j].pack /\ merged' = calls[j].merged /\ stack' = calls[j].stack
       /\ current' = calls[j].current /\ keys' = calls[j].keys
       /\ value' = calls[j].value /\ failed' = calls[j].failed
       /\ table0' = calls[j].table0 /\ scene' = calls[j].scene
       /\ group' = calls[j].group /\ mesh' = calls[j].mesh /\ face' = calls[j].face
       /\ texRef' = calls[j].texRef
       /\ textureCache' = OwnCache(calls[j].textureCache, textureCache)

----------------------------------------------------------------------------
(* Inputs *)

MaxVariants == 3
MaxParts == 3

\* The sequences without repetition of at most n elements of Dom.
InjSeqs(Dom, n) ==
  UNION { {f \in [1..k -> Dom] : \A a, b \in 1..k : a # b => f[a] # f[b]} : k \in 0..n }

Obj(m) == [t |-> "obj", m |-> m]
List(l) == [t |-> "list", l |-> l]
Term(k, v) == [k |-> k, v |-> v]

\* Variants: a key (its terms) and its value.
VariantPool ==
  << [key |-> <<>>,
      value |-> Obj(Model(10, "block/plain", 0, 0, 0))],
     [key |-> <<Term("facing", "north")>>,
      value |-> Obj(Model(20, "block/north", 0, 0, 0))],
     [key |-> <<Term("facing", "south")>>,
      value |-> Obj(Model(30, "block/south", 0, 180, 0))],
     [key |-> <<Term("shape", "north_south")>>,
      value |-> List(<<Model(41, "block/rail", 0, 90, 0),
                       Model(42, "block/rail_alt", 0, 45, 0)>>)],
     [key |-> <<Term("facing", "south"), Term("shape", "straight")>>,
      value |-> Obj(Model(50, "block/corner", 0, 0, 0))],
     [key |-> <<Term("up", "true")>>,
      value |-> List(<<>>)],
     [key |-> <<Term("half", "bottom")>>,
      value |-> Obj(Model(70, "block/tilted", -90, 45, 0))],
     [key |-> <<Term("age", "6")>>,
      value |-> Obj(Model(80, "block/crop", 0, 0, -270))] >>

NoDoc == [kind |-> "none", allow_invalid_rotations |-> FALSE]

VariantDoc(sel, air) ==
  [kind |-> "variants", variants |-> [j \in 1..Len(sel) |-> VariantPool[sel[j]]],
   allow_invalid_rotations |-> air]

VariantDocs ==
  { VariantDoc(sel, air) :
      sel \in InjSeqs(1..Len(VariantPool), MaxVariants), air \in BOOLEAN }

VariantContexts ==
  { [facing |-> Undef],
    [facing |-> S("south"), half |-> S("top")],
    [facing |-> L(<<S("south"), S("north")>>), age |-> N(6), up |-> B(FALSE)] }

VariantIds == { <<"stone">>, <<"oak", "_stairs">> }

NoWhen == [t |-> "none"]
Map(c) == [t |-> "map", c |-> c]
Or(cs) == [t |-> "OR", cs |-> cs]
And(cs) == [t |-> "AND", cs |-> cs]

\* Multipart: a `when` and an `apply`.
PartPool ==
  << [when |-> NoWhen,
      apply |-> Obj(Model(10, "block/post", 0, 0, 0))],
     [when |-> Map(<<Term("shape", <<"straight">>)>>),
      apply |-> Obj(Model(20, "block/straight", 0, 0, 0))],
     [when |-> Map(<<Term("shape", <<"north_south">>), Term("age", <<"0">>)>>),
      apply |-> Obj(Model(30, "block/young", 0, 0, 0))],
     [when |-> Map(<<Term("age", <<"1">>)>>),
      apply |-> Obj(Model(40, "block/sprout", 0, 180, 0))],
     [when |-> Map(<<Term("facing", <<"north", "south">>)>>),
      apply |-> Obj(Model(50, "block/side", 0, 45, 0))],
     [when |-> Or(<< <<Term("facing", <<"south">>)>>,
                     <<Term("facing", <<"north">>), Term("leaves", <<"none">>)>> >>),
      apply |-> Obj(Model(60, "block/bare", 90, 0, 0))],
     [when |-> And(<< <<Term("facing", <<"north">>)>>, <<Term("up", <<"false">>)>> >>),
      apply |-> Obj(Model(70, "block/low", 0, 0, 0))],
     [when |-> NoWhen,
      apply |-> List(<<Model(81, "block/cap", 0, 0, 0), Model(82, "block/cap_alt", 0, 0, 0)>>)],
     [when |-> NoWhen,
      apply |-> Obj(Model(90, "", 0, 0, 0))] >>

MultipartDoc(sel, air) ==
  [kind |-> "multipart", multipart |-> [j \in 1..Len(sel) |-> PartPool[sel[j]]],
   allow_invalid_rotations |-> air]

MultipartDocs ==
  { MultipartDoc(sel, air) :
      sel \in InjSeqs(1..Len(PartPool), MaxParts), air \in BOOLEAN }

MultipartContexts ==
  { [facing |-> Undef],
    [facing |-> S("south"), up |-> B(FALSE), shape |-> S("north_south")] }

LookupIds ==
  { <<"stone">>, <<"fire">>, <<"soul_", "fire">>, <<"minecraft", ":", "fire">>,
    <<"oak", "_stairs">>, <<"minecraft", ":", "oak", "_stairs">>,
    <<"piston", "_stairs">>, <<"sticky_", "piston">>, <<"vine">>, <<"red", "_bed">>,
    <<"water_", "cauldron">>, <<"redstone_wire">>, <<"cocoa">>, <<"hopper">> }

LookupProps ==
  { "facing", "up", "north", "south", "shape", "age", "level", "lit", "part", "leaves" }

LookupContexts ==
  { [facing |-> Undef],
    [facing |-> S("east")],
    [up |-> B(FALSE), north |-> S("none")],
    [facing |-> L(<<S("west"), S("east")>>), level |-> N(1)] }

\* The files the base behaviours of parseBlockstate read.
BaseFiles ==
  { <<Missing, Missing>>,
    <<Missing, Unparsable>>,
    <<Unparsable, Json(VariantDoc(<<1>>, FALSE))>>,
    <<Json(MultipartDoc(<<1, 5, 6>>, FALSE)), Json(VariantDoc(<<1>>, FALSE))>>,
    <<Missing, Json(VariantDoc(<<1, 2>>, FALSE))>>,
    <<Missing, Json(NoDoc)>> }

\* The entries a generated textures table may have.
MaxTexKeys == 2

Lit(s) == Tex(<<s>>)
Ref(k) == Tex(<<"#", k>>)

TexKeys == {"a", "b", "layer0"}

TexValues ==
  { Lit("block/stone"), Lit("block/dirt"), Ref("a"), Ref("b"), Ref("zz"),
    Sprite(Lit("block/stone")), Sprite(Undef), Sprite(Ref("a")), Tex(<<>>) }

Tables ==
  UNION { { Table([j \in 1..Len(ks) |-> Entry(ks[j], vs[j])]) :
              vs \in [1..Len(ks) -> TexValues] } :
          ks \in InjSeqs(TexKeys, MaxTexKeys) }

\* A file under its name.
File(name, file) == [name |-> name, file |-> file]

Minecraft == <<"minecraft">>

\* The pictures of the pack: one with a transparent pixel, one animation
\* strip with its .mcmeta, one whose .mcmeta does not parse, one frame of a
\* single pixel, one with no opaque pixel.
TextureFiles ==
  << File(<<Minecraft, <<"block/stone">>>>,
          [st |-> "image", image |-> Image(2, 2, <<255, 0, 255, 255>>), meta |-> Missing]),
     File(<<Minecraft, <<"item/stick">>>>,
          [st |-> "image", image |-> Image(2, 4, <<255, 128, 0, 255, 255, 255, 255, 255>>),
           meta |-> Json([width |-> Undef, height |-> Undef])]),
     File(<<Minecraft, <<"item/wide">>>>,
          [st |-> "image", image |-> Image(2, 1, <<255, 255>>), meta |-> Unparsable]),
     File(<<Minecraft, <<"item/frame">>>>,
          [st |-> "image", image |-> Image(1, 2, <<255, 255>>),
           meta |-> Json([width |-> Undef, height |-> N(1)])]),
     File(<<Minecraft, <<"item/empty">>>>,
          [st |-> "image", image |-> Image(2, 1, <<0, 0>>), meta |-> Missing]) >>

Files(overrides, documents) ==
  [overrides |-> overrides, models |-> documents, textures |-> TextureFiles]

NoFiles == Files(<<>>, <<>>)

\* A pack whose only model is block/a, with the given parent and textures.
TablePack(parent, table) ==
  Files(<<>>, <<File(<<Minecraft, <<"block/a">>>>, Json(Doc(parent, table, Undef, Undef)))>>)

\* A pack whose only model is block/a, with the given textures and one
\* element whose faces name the keys a and b and a key no table has.
FacePack(table) ==
  Files(<<>>, <<File(<<Minecraft, <<"block/a">>>>,
                     Json(Doc(<<>>, table,
                              L(<<Cube([north |-> [texture |-> <<"#", "a">>],
                                        east |-> [texture |-> <<"#", "b">>],
                                        up |-> [texture |-> <<"#", "zz">>]])>>),
                              Undef)))>>)

Generated == <<"builtin", "/generated">>

\* The documents of a chain block/a -> block/b -> block/c.
ChildDoc ==
  WithDisplay(Doc(<<"minecraft", ":", "block/b">>,
                  Table(<<Entry("side", Lit("block/dirt"))>>), Undef, B(FALSE)),
              Table(<<Entry("gui", Transform(<<30, 225, 0>>))>>))
ParentDoc ==
  WithDisplay(Doc(<<"block/c">>,
                  Table(<<Entry("side", Lit("block/stone")),
                          Entry("end", Lit("block/stone"))>>),
                  Undef, B(TRUE)),
              Table(<<Entry("gui", Transform(<<0, 0, 0>>)),
                      Entry("ground", Transform(<<0, 90, 0>>))>>))
RootDoc ==
  Doc(<<>>, Undef,
      L(<<Cube([north |-> [texture |-> <<"#", "side">>], up |-> [texture |-> <<"#", "end">>]])>>),
      Undef)
ItemDoc == Doc(<<"minecraft", ":", "builtin", "/generated">>,
               Table(<<Entry("layer0", Lit("item/stick"))>>), Undef, Undef)
FlatDoc == Doc(Generated,
               Table(<<Entry("layer0", Lit("item/stick")), Entry("layer1", Lit("item/frame")),
                       Entry("particle", Ref("layer0")), Entry("layer2", Lit("item/empty"))>>),
               Undef, Undef)
\* Two documents, each the parent of the other.
LoopDoc == Doc(<<"block/back">>, Undef, Undef, Undef)
BackDoc == Doc(<<"minecraft", ":", "block/loop">>, Undef, Undef, Undef)
ModDoc == Doc(<<"mod", ":", "block/c">>, Undef, Undef, Undef)

Statuses(doc) == {Json(doc), Missing, Unparsable}

\* Packs of the chain, each file present, missing or unparsable, with or
\* without an override of block/b.
ChainPacks ==
  { Files(o, <<File(<<Minecraft, <<"block/a">>>>, a), File(<<Minecraft, <<"block/b">>>>, b),
               File(<<Minecraft, <<"block/c">>>>, c),
               File(<<Minecraft, <<"block/loop">>>>, Json(LoopDoc)),
               File(<<Minecraft, <<"block/back">>>>, Json(BackDoc)),
               File(<<Minecraft, <<"block/mod">>>>, Json(ModDoc)),
               File(<<<<"mod">>, <<"block/c">>>>, c),
               File(<<Minecraft, <<"item/g">>>>, Json(ItemDoc)),
               File(<<Minecraft, <<"item/flat">>>>, Json(FlatDoc))>>) :
      a \in Statuses(ChildDoc), b \in Statuses(ParentDoc), c \in Statuses(RootDoc),
      o \in { <<>>, <<File(<<"block/b">>, Json(RootDoc))>>,
              <<File(<<"block/b">>, Unparsable)>> } }

\* The model arguments: names, references of a blockstate, the placeholder.
ModelArgs ==
  { Lit("block/a"), Tex(<<"minecraft", ":", "block/b">>), Lit("block/loop"),
    Lit("block/mod"), Lit("item/g"), Lit("item/flat"), Lit("~missing"), MissingRef,
    Model(1, "block/a", 0, 90, 0), Model(2, "block/a", 0, 45, 0),
    [Model(3, "block/a", 0, 45, 0) EXCEPT !.allow_invalid_rotations = TRUE],
    [Model(4, "block/a", 0, 0, 0) EXCEPT !.type = "block"] }

\* Item model definitions.
StickModel == [type |-> <<"minecraft", ":", "model">>, model |-> S("item/stick")]
PotionModel ==
  [type |-> <<"model">>, model |-> S("item/potion"),
   tints |-> << [type |-> <<"minecraft", ":", "constant">>, value |-> N(-13083194)],
                [type |-> <<"minecraft", ":", "grass">>],
                [type |-> <<"dye">>, default |-> N(255)],
                [type |-> <<"dye">>, value |-> N(0)] >>]
BrokenModel ==
  [type |-> <<"condition">>, property |-> <<"minecraft", ":", "broken">>,
   on_true |-> StickModel, on_false |-> PotionModel]
ContextModel ==
  [type |-> <<"minecraft", ":", "select">>, property |-> <<"display_context">>,
   cases |-> << [when |-> L(<< <<"gui">>, <<"minecraft", ":", "ground">> >>),
                 model |-> StickModel],
                [when |-> Tex(<<"fixed">>), model |-> PotionModel] >>,
   fallback |-> BrokenModel]
DamageModel ==
  [type |-> <<"range_dispatch">>, property |-> <<"damage">>, scale |-> 2,
   entries |-> L(<< [threshold |-> 0, model |-> StickModel],
                    [threshold |-> 4, model |-> PotionModel] >>)]
ChestModel ==
  [type |-> <<"special">>, base |-> S("item/chest"),
   model |-> [type |-> <<"minecraft", ":", "chest">>, texture |-> S("normal")]]
PairModel == [type |-> <<"composite">>, models |-> <<StickModel, BrokenModel>>]
BundleModel == [type |-> <<"minecraft", ":", "bundle/selected_item">>]

ItemModels ==
  { StickModel, PotionModel, BrokenModel, ContextModel, DamageModel, ChestModel,
    PairModel, BundleModel }

ItemFiles == {Missing, Unparsable, Json(EmptyObject)} \cup {Json([model |-> m]) : m \in ItemModels}

ItemContexts ==
  { [broken |-> Undef], [broken |-> S("true"), damage |-> N(3)],
    [damage |-> N(1), display_context |-> S("fixed")], [damage |-> S("worn")] }

\* Item definitions of one dispatch each over plain models.
MaxEntries == 2

Plain(name) == [type |-> <<"model">>, model |-> S(name)]

EntryPool ==
  << [threshold |-> 0, model |-> Plain("item/new")],
     [threshold |-> 2, model |-> Plain("item/used")],
     [threshold |-> 4, model |-> Plain("item/worn")] >>

\* A record r with the field k when v is not Undef.
With(r, k, v) ==
  IF v.t = "undef" THEN r ELSE [f \in DOMAIN r \cup {k} |-> IF f = k THEN v.v ELSE r[f]]
Some(v) == [t |-> "some", v |-> v]

DispatchModels ==
  { With(With([type |-> <<"minecraft", ":", "range_dispatch">>, property |-> <<"damage">>,
               entries |-> L([j \in 1..Len(sel) |-> EntryPool[sel[j]]])],
              "scale", scale),
         "fallback", fallback) :
      sel \in InjSeqs(1..Len(EntryPool), MaxEntries),
      scale \in {Undef, Some(2)},
      fallback \in {Undef, Some(Plain("item/broken"))} }

CasePool ==
  << [when |-> L(<< <<"gui">>, <<"minecraft", ":", "ground">> >>), model |-> Plain("item/flat")],
     [when |-> Tex(<<"fixed">>), model |-> Plain("item/framed")],
     [when |-> Tex(<<"minecraft", ":", "gui">>), model |-> Plain("item/icon")] >>

SelectModels ==
  { With([type |-> <<"select">>, property |-> property,
          cases |-> [j \in 1..Len(sel) |-> CasePool[sel[j]]]],
         "fallback", fallback) :
      sel \in InjSeqs(1..Len(CasePool), MaxEntries),
      property \in { <<"display_context">>, <<"minecraft", ":", "display_context">>,
                      <<"main_hand">> },
      fallback \in {Undef, Some(Plain("item/broken"))} }

\* 32-bit integers of literal tints.
TintInts == {0, 255, -1, -13083194, 16777216, 2147483647, -2147483647}

TintSpecs ==
  { [type |-> <<"minecraft", ":", "constant">>, value |-> N(v)] : v \in TintInts }
    \cup { [type |-> <<"dye">>, default |-> N(v)] : v \in TintInts }
    \cup { [type |-> <<"dye">>, value |-> N(v), default |-> N(w)] :
              v \in {0, 255}, w \in {0, -1} }
    \cup { [type |-> <<"dye">>], [type |-> <<"minecraft", ":", "grass">>] }

TintModels ==
  { [type |-> <<"model">>, model |-> S("item/potion"), tints |-> <<a, b>>] :
      a \in TintSpecs, b \in {[type |-> <<"dye">>], [type |-> <<"dye">>, value |-> N(0)]} }

DispatchContexts ==
  { [display_context |-> Undef], [damage |-> N(-1)], [damage |-> N(1)], [damage |-> N(3)],
    [damage |-> S("worn")], [display_context |-> S("fixed")],
    [display_context |-> Tex(<<"minecraft", ":", "ground">>)], [main_hand |-> S("gui")] }

\* Resolved models for loadModel: elements of a pool under a placement.
MaxElements == 2

Face(texture) == [texture |-> texture]

ElementPool ==
  << [from |-> <<0, 0, 0>>, to |-> <<16, 16, 16>>,
      faces |-> [north |-> [texture |-> <<"#", "a">>, uv |-> <<0, 0, 16, 8>>],
                 up |-> [texture |-> <<"#", "a">>, rotation |-> 90],
                 east |-> [texture |-> <<"b">>, tintindex |-> 0]]],
     [from |-> <<4, 0, 4>>, to |-> <<12, 8, 12>>,
      faces |-> [south |-> [texture |-> <<"#", "b">>, uv |-> <<2, 4, 10, 12>>,
                            rotation |-> 270],
                 down |-> Face(<<"#", "c">>),
                 west |-> [uv |-> <<0, 0, 4, 4>>]],
      rotation |-> [origin |-> <<8, 8, 8>>, axis |-> "y", angle |-> 45]],
     [from |-> <<0, 0, 0>>, to |-> <<16, 1, 16>>,
      faces |-> [up |-> Face(<<"#", "a">>)],
      rotation |-> [origin |-> <<8, 8, 8>>, axis |-> "x"]],
     [from |-> <<0, 0, 0>>, to |-> <<16, 16, 1>>,
      faces |-> [north |-> Face(<<"#", "b">>)],
      rotation |-> [origin |-> <<8, 8, 8>>, angle |-> 0]],
     [from |-> <<7, 0, 7>>, to |-> <<9, 16, 9>>,
      faces |-> [east |-> Face(<<"#", "zz">>), west |-> [texture |-> <<"#", "a">>,
                                                         rotation |-> 180]],
      rotation |-> [origin |-> <<8, 8, 8>>, x |-> 10]] >>

\* What resolveModelData returns for a model with these fields.
ResolvedModel(x, y, z, uvlock, elements) ==
  [InitialMerged(Tex(<<>>)) EXCEPT
     !.x = x, !.y = y, !.z = z, !.uvlock = uvlock,
     !.tints = <<"#385dc6">>,
     !.textures = Table(<<Entry("a", Lit("block/stone")), Entry("b", Lit("item/stick")),
                          Entry("c", Ref("a"))>>),
     !.elements = L(elements)]

ResolvedModels ==
  { ResolvedModel(x, y, z, uvlock, [j \in 1..Len(sel) |-> ElementPool[sel[j]]]) :
      x \in {0, 90, 180}, y \in {0, 90, -90}, z \in {0, 270}, uvlock \in BOOLEAN,
      sel \in InjSeqs(1..Len(ElementPool), MaxElements) }

\* The variables of a call before its first step, but its arguments.
NewCall ==
  [call |-> "", pc |-> "start", ret |-> Pending, blockstate |-> <<>>,
   data |-> EmptyObject, overrideFile |-> Missing, assetFile |-> Missing,
   json |-> NoDoc, scored |-> <<>>, scoredParts |-> <<>>, ranges |-> {},
   usedKeyValues |-> <<>>, accepted |-> <<>>, models |-> <<>>, idx |-> 1,
   prop |-> "", raw |-> Undef, display |-> "gui", model |-> Tex(<<>>),
   pack |-> NoFiles, merged |-> InitialMerged(Tex(<<>>)), stack |-> <<>>,
   current |-> [namespace |-> <<>>, item |-> <<>>], keys |-> <<>>, value |-> Undef,
   failed |-> FALSE, table0 |-> Undef, scene |-> <<>>, group |-> <<>>,
   mesh |-> NoMesh, face |-> 1, texRef |-> Undef, textureCache |-> <<>>]

\* The calls of a handler of the batch driver, render_overrides.js lines
\* 32-40 and 48-56, each on a scene of its own.
BlockstateCall(id, d, override, asset) ==
  [NewCall EXCEPT !.call = "parseBlockstate", !.blockstate = id, !.data = d,
                  !.overrideFile = override, !.assetFile = asset]
ItemCall(id, d, disp, asset) ==
  [NewCall EXCEPT !.call = "parseItemDefinition", !.blockstate = id, !.data = d,
                  !.display = disp, !.assetFile = asset]
ResolveCall(arg, files) ==
  [NewCall EXCEPT !.call = "resolveModelData", !.model = arg, !.pack = files]
LoadCall(m, files) ==
  [NewCall EXCEPT !.call = "loadModel", !.merged = m, !.pack = files]

\* The calls of a chunk: one of each parser, resolveModelData on a chain, on
\* a generated item and on a missing model, loadModel on models that share
\* texture ids under different tints.
BatchCalls ==
  { BlockstateCall(<<"stone">>, [facing |-> S("north")], Missing,
                   Json(VariantDoc(<<1, 2>>, FALSE))),
    ItemCall(<<"stick">>, [broken |-> Undef], "gui", Json([model |-> PairModel])),
    ResolveCall(Lit("block/a"),
                Files(<<>>, <<File(<<Minecraft, <<"block/a">>>>, Json(ChildDoc)),
                              File(<<Minecraft, <<"block/b">>>>, Json(ParentDoc)),
                              File(<<Minecraft, <<"block/c">>>>, Json(RootDoc))>>)),
    ResolveCall(Lit("item/g"),
                Files(<<>>, <<File(<<Minecraft, <<"item/g">>>>, Json(ItemDoc))>>)),
    ResolveCall(Lit("block/none"), NoFiles),
    LoadCall(ResolvedModel(0, 90, 0, TRUE, <<ElementPool[1]>>), NoFiles),
    LoadCall(ResolvedModel(0, 0, 0, FALSE, <<ElementPool[2], ElementPool[5]>>), NoFiles) }

----------------------------------------------------------------------------
(* Specifications *)

\* The variables of loadModel before a call of it, the call being the only
\* one of its batch.
NoLoad ==
  /\ scene = <<>> /\ group = <<>> /\ mesh = NoMesh /\ face = 1
  /\ texRef = Undef /\ textureCache = <<>>
  /\ self = 1 /\ calls = <<>>

\* The variables of resolveModelData before a call of it.
NoResolve ==
  /\ display = "gui" /\ model = Tex(<<>>) /\ pack = NoFiles
  /\ merged = InitialMerged(Tex(<<>>)) /\ stack = <<>>
  /\ current = [namespace |-> <<>>, item |-> <<>>]
  /\ keys = <<>> /\ value = Undef /\ failed = FALSE /\ table0 = Undef
  /\ NoLoad

\* The state of a call of parseBlockstate(assets, id, d) before its first step.
StartBlockstate(id, d, override, asset) ==
  /\ call = "parseBlockstate" /\ pc = "start"
  /\ blockstate = id /\ data = d
  /\ overrideFile = override /\ assetFile = asset
  /\ json = NoDoc /\ scored = <<>> /\ scoredParts = <<>> /\ ranges = {}
  /\ usedKeyValues = <<>> /\ accepted = <<>> /\ models = <<>> /\ idx = 1
  /\ prop = "" /\ raw = Undef /\ ret = Pending
  /\ NoResolve

\* The state before the lookup of property k.
StartLookup(id, d, k) ==
  /\ call = "lookup" /\ pc = "start"
  /\ blockstate = id /\ data = d
  /\ overrideFile = Missing /\ assetFile = Missing
  /\ json = NoDoc /\ scored = <<>> /\ scoredParts = <<>> /\ ranges = {}
  /\ usedKeyValues = <<>> /\ accepted = <<>> /\ models = <<>> /\ idx = 1
  /\ prop = k /\ raw = Undef /\ ret = Pending
  /\ NoResolve

\* The state of a call of parseItemDefinition(assets, id, d, disp).
StartItem(id, d, disp, asset) ==
  /\ call = "parseItemDefinition" /\ pc = "start"
  /\ blockstate = id /\ data = d
  /\ overrideFile = Missing /\ assetFile = asset
  /\ json = NoDoc /\ scored = <<>> /\ scoredParts = <<>> /\ ranges = {}
  /\ usedKeyValues = <<>> /\ accepted = <<>> /\ models = <<>> /\ idx = 1
  /\ prop = "" /\ raw = Undef /\ ret = Pending
  /\ display = disp /\ model = Tex(<<>>) /\ pack = NoFiles
  /\ merged = InitialMerged(Tex(<<>>)) /\ stack = <<>>
  /\ current = [namespace |-> <<>>, item |-> <<>>]
  /\ keys = <<>> /\ value = Undef /\ failed = FALSE /\ table0 = Undef
  /\ NoLoad

\* The state of a call of resolveModelData(assets, arg) on the files `files`.
StartResolve(arg, files) ==
  /\ call = "resolveModelData" /\ pc = "start"
  /\ blockstate = <<>> /\ data = EmptyObject
  /\ overrideFile = Missing /\ assetFile = Missing
  /\ json = NoDoc /\ scored = <<>> /\ scoredParts = <<>> /\ ranges = {}
  /\ usedKeyValues = <<>> /\ accepted = <<>> /\ models = <<>> /\ idx = 1
  /\ prop = "" /\ raw = Undef /\ ret = Pending
  /\ display = "gui" /\ model = arg /\ pack = files
  /\ merged = InitialMerged(Tex(<<>>)) /\ stack = <<>>
  /\ current = [namespace |-> <<>>, item |-> <<>>]
  /\ keys = <<>> /\ value = Undef /\ failed = FALSE /\ table0 = Undef
  /\ NoLoad

\* The state of a call of loadModel(scene, assets, m, display) on an empty
\* scene, m being a model resolveModelData returned.
StartLoad(m, files) ==
  /\ call = "loadModel" /\ pc = "start"
  /\ blockstate = <<>> /\ data = EmptyObject
  /\ overrideFile = Missing /\ assetFile = Missing
  /\ json = NoDoc /\ scored = <<>> /\ scoredParts = <<>> /\ ranges = {}
  /\ usedKeyValues = <<>> /\ accepted = <<>> /\ models = <<>> /\ idx = 1
  /\ prop = "" /\ raw = Undef /\ ret = Pending
  /\ display = "gui" /\ model = Tex(<<>>) /\ pack = files
  /\ merged = m /\ stack = <<>>
  /\ current = [namespace |-> <<>>, item |-> <<>>]
  /\ keys = <<>> /\ value = Undef /\ failed = FALSE /\ table0 = Undef
  /\ NoLoad

\* A chunk of calls, the first of them running.
StartBatch(chunk) == Running(chunk[1]) /\ self = 1 /\ calls = chunk

\* One call of each entry point on a few inputs: every step can happen.
InitBase ==
  \/ \E f \in BaseFiles : StartBlockstate(<<"vine">>, [facing |-> Undef], f[1], f[2])
  \/ StartLookup(<<"fire">>, [facing |-> Undef], "up")
  \/ \E f \in {Missing, Json([model |-> PairModel])} :
       StartItem(<<"stick">>, [broken |-> Undef], "gui", f)
  \/ \E t \in {Table(<<Entry("a", Ref("b")), Entry("b", Lit("block/stone"))>>)} :
       StartResolve(Lit("block/a"), TablePack(<<>>, t))
  \/ StartResolve(Lit("block/b"), TablePack(<<>>, Undef))
  \/ StartLoad(ResolvedModel(0, 90, 0, TRUE, <<ElementPool[2]>>), NoFiles)
  \/ StartBatch(<<ItemCall(<<"stick">>, [broken |-> Undef], "gui", Missing),
                  LoadCall(ResolvedModel(0, 0, 0, FALSE, <<>>), NoFiles)>>)

InitLookup ==
  \E id \in LookupIds, d \in LookupContexts, k \in LookupProps : StartLookup(id, d, k)

InitVariants ==
  \E id \in VariantIds, d \in VariantContexts, doc \in VariantDocs :
    StartBlockstate(id, d, Missing, Json(doc))

InitMultipart ==
  \E d \in MultipartContexts, doc \in MultipartDocs :
    StartBlockstate(<<"stone">>, d, Missing, Json(doc))

\* resolveModelData of block/a, its textures any table, its parent none or
\* the marker of generated items.
InitTextures ==
  \E t \in Tables, parent \in {<<>>, Generated} :
    StartResolve(Lit("block/a"), TablePack(parent, t))

\* The three entry points on files that are present, missing or unparsable.
InitFailure ==
  \/ \E arg \in ModelArgs, files \in ChainPacks : StartResolve(arg, files)
  \/ \E f \in ItemFiles, d \in ItemContexts, disp \in {"gui", "ground"} :
       StartItem(<<"minecraft", ":", "stick">>, d, disp, f)
  \/ \E o \in {Missing, Unparsable, Json(NoDoc)},
        a \in {Missing, Unparsable, Json(VariantDoc(<<1, 2>>, FALSE))} :
       StartBlockstate(<<"stone">>, [facing |-> S("north")], o, a)

\* parseItemDefinition on definitions of one range dispatch, one select or
\* one tinted model.
InitItems ==
  \E m \in DispatchModels \cup SelectModels \cup TintModels,
     d \in DispatchContexts, disp \in {"gui", "ground"} :
    StartItem(<<"stick">>, d, disp, Json([model |-> m]))

\* loadModel on the resolved models, the pictures of the pack at hand.
InitGeometry == \E m \in ResolvedModels : StartLoad(m, NoFiles)

\* resolveModelData of block/a and loadModel of what it returns: the
\* textures are any table in which no key names itself, an iteration on
\* such a key leaving texRef as it is.
InitRender ==
  \E t \in Tables :
    /\ \A j \in 1..Len(t.e) : t.e[j].v # Ref(t.e[j].k)
    /\ StartResolve(Lit("block/a"), FacePack(t))

\* A chunk of two calls of the four entry points.
InitBatch == \E a \in BatchCalls, b \in BatchCalls : StartBatch(<<a, b>>)

Next ==
  \/ LookupDefault
  \/ ReadBlockstate
  \/ SelectVariants
  \/ ScoreParts
  \/ AcceptPart
  \/ AcceptDone
  \/ SelectNothing
  \/ DecorateModel
  \/ ReturnModels
  \/ ReadItemDefinition
  \/ ResolveItem
  \/ ResolveBegin
  \/ WalkStep
  \/ CatchFailure
  \/ MergeLayers
  \/ TexturesNext
  \/ TexturesWhile
  \/ TexturesAssign
  \/ TexturesDone
  \/ SpriteExpand
  \/ ReturnMerged
  \/ LoadBegin
  \/ LoadGeometry
  \/ BindFace
  \/ FollowRef
  \/ LoadFaceTexture
  \/ PlaceMesh
  \/ AddToScene
  \/ LoadResolved
  \/ Yield

Spec == InitBase /\ [][Next]_vars
SpecLookup == (InitBase \/ InitLookup) /\ [][Next]_vars
SpecVariants == (InitBase \/ InitVariants) /\ [][Next]_vars
SpecMultipart == (InitBase \/ InitMultipart) /\ [][Next]_vars
SpecTextures == (InitBase \/ InitTextures) /\ [][Next]_vars
SpecFailure == (InitBase \/ InitFailure) /\ [][Next]_vars
SpecItems == (InitBase \/ InitItems) /\ [][Next]_vars
SpecGeometry == (InitBase \/ InitGeometry) /\ [][Next]_vars
SpecBatch == (InitBase \/ InitBatch) /\ [][Next]_vars

\* A step of resolveModelData.
ResolveStep ==
  \/ ResolveBegin \/ WalkStep \/ CatchFailure \/ MergeLayers \/ TexturesNext
  \/ TexturesWhile \/ TexturesAssign \/ TexturesDone \/ SpriteExpand \/ ReturnMerged

\* A step of loadModel.
LoadStep ==
  \/ LoadBegin \/ LoadGeometry \/ BindFace \/ FollowRef \/ LoadFaceTexture
  \/ PlaceMesh \/ AddToScene

\* The event loop goes on with a call that can take a step: a file that is
\* read is read in the end, and a loop without an await runs on.
SpecRender == (InitBase \/ InitRender) /\ [][Next]_vars /\ WF_vars(LoadStep)
SpecWalk == (InitBase \/ InitFailure) /\ [][Next]_vars /\ WF_vars(ResolveStep)

----------------------------------------------------------------------------
(* Claims about parseBlockstate *)

Range(seq) == {seq[j] : j \in 1..Len(seq)}
MinOf(set) == CHOOSE m \in set : \A o \in set : m <= o
Mult90(n) == \E q \in -8..8 : n = 90 * q

\* The model objects a returned list holds, by identity.
Oids(list) == {list[j].oid : j \in {h \in 1..Len(list) : list[h].t = "model"}}

VariantsChosen ==
  call = "parseBlockstate" /\ json.kind = "variants" /\ pc \in {"decorate", "done"}

\* The variants that have a model: an object, or a list with a first entry.
Candidates ==
  {c \in 1..Len(json.variants) :
     json.variants[c].value.t = "list" => Len(json.variants[c].value.l) > 0}

EntryOid(c) ==
  IF json.variants[c].value.t = "list"
    THEN json.variants[c].value.l[1].oid
    ELSE json.variants[c].value.m.oid

\* C1: among the variant keys that have a model, the key whose model is
\* selected (and returned, unless the rotation policy answers instead) has
\* a total score >= every other key's; the empty key is chosen only when no
\* other key scores more than 0.1; of a list value the first entry is taken.
C1_VariantChoice ==
  VariantsChosen =>
    /\ IF Candidates = {} THEN models = <<>>
       ELSE /\ Len(models) = 1
            /\ \E c \in Candidates :
                 /\ models[1].oid = EntryOid(c)
                 /\ \A o \in Candidates :
                      VariantScore(json.variants[c].key, data, blockstate)
                        >= VariantScore(json.variants[o].key, data, blockstate)
                 /\ json.variants[c].key = <<>> =>
                      \A o \in Candidates \ {c} :
                        VariantScore(json.variants[o].key, data, blockstate) <= 1
    /\ ret.st = "returned" =>
         \/ ret.v = <<MissingRef>>
         \/ /\ Len(ret.v) = Len(models)
            /\ \A j \in 1..Len(ret.v) : ret.v[j].oid = models[j].oid

\* The empty key is returned although the document has other candidates.
C1_Witness ==
  /\ VariantsChosen /\ ret.st = "returned"
  /\ Cardinality(Candidates) >= 2
  /\ \E c \in Candidates : json.variants[c].key = <<>> /\ Oids(ret.v) = {EntryOid(c)}

\* The ranked list a term's value is looked up in, and what the term adds.
Contribution(term) ==
  LET ranked == Actuals(RawValue(data, blockstate, term.k))
      at == {j \in 1..Len(ranked) : ranked[j] = term.v}
  IN IF at = {} THEN 0 ELSE 10 * (Len(ranked) - (MinOf(at) - 1))

RECURSIVE Total(_)
Total(key) == IF key = <<>> THEN 0 ELSE Contribution(Head(key)) + Total(Tail(key))

KeyTotal(key) == IF key = <<>> THEN 1 ELSE Total(key)

\* C2: every term of a key adds (length of the ranked list - index of the
\* value) when it matches and 0 when it does not; no candidate is dropped
\* for a term that does not match, and the candidate whose total is the
\* highest is the one selected.
C2_SoftScoring ==
  VariantsChosen =>
    /\ \A c \in Candidates :
         \E e \in 1..Len(scored) :
           scored[e].index = c /\ scored[e].score = KeyTotal(json.variants[c].key)
    /\ \A c \in Candidates :
         (\A o \in Candidates \ {c} :
            KeyTotal(json.variants[c].key) > KeyTotal(json.variants[o].key))
           => (Len(models) = 1 /\ models[1].oid = EntryOid(c))

\* The returned model is that of a key one of whose terms does not match.
C2_Witness ==
  /\ VariantsChosen /\ ret.st = "returned"
  /\ Cardinality(Candidates) >= 2
  /\ \E c \in Candidates :
       /\ Oids(ret.v) = {EntryOid(c)}
       /\ \E t \in Range(json.variants[c].key) : Contribution(t) = 0
       /\ \A o \in Candidates \ {c} :
            KeyTotal(json.variants[c].key) > KeyTotal(json.variants[o].key)

PartsScored ==
  call = "parseBlockstate" /\ json.kind = "multipart" /\ pc \in {"accept", "decorate", "done"}

PartsChosen ==
  call = "parseBlockstate" /\ json.kind = "multipart" /\ pc \in {"decorate", "done"}

\* The parts without `when` whose apply (its first entry) names a model.
Unconditional ==
  {p \in 1..Len(json.multipart) :
     /\ json.multipart[p].when.t = "none"
     /\ FirstEntry(json.multipart[p].apply).t = "model"
     /\ FirstEntry(json.multipart[p].apply).model # ""}

PolicyAnswered == ret.st = "returned" /\ ret.v = <<MissingRef>>

\* C3 as stated: the apply model of every part without `when` is in the
\* returned list.
C3_AlwaysReturned ==
  (PartsChosen /\ ret.st = "returned") =>
    \A p \in Unconditional : FirstEntry(json.multipart[p].apply).oid \in Oids(ret.v)

\* C3, amended: every part without `when` matches with score 0 and is
\* accepted whatever was accepted before it; its apply model is in the
\* returned list unless the rotation policy replaced the whole list by the
\* placeholder, which happens only when the flag is unset and a selected
\* model has a rotation that is not a multiple of 90.
C3_UnconditionalParts ==
  /\ PartsScored =>
       \A p \in 1..Len(json.multipart) :
         json.multipart[p].when.t = "none" =>
           \E e \in 1..Len(scoredParts) :
             scoredParts[e].index = p /\ scoredParts[e].score = 0
  /\ PartsChosen =>
       /\ \A p \in 1..Len(json.multipart) :
            json.multipart[p].when.t = "none" => p \in Range(accepted)
       /\ \A p \in Unconditional :
            /\ FirstEntry(json.multipart[p].apply).oid \in Oids(models)
            /\ (ret.st = "returned" /\ ~PolicyAnswered) =>
                 FirstEntry(json.multipart[p].apply).oid \in Oids(ret.v)
       /\ PolicyAnswered =>
            /\ ~json.allow_invalid_rotations
            /\ \E j \in 1..Len(models) :
                 ~(Mult90(models[j].x) /\ Mult90(models[j].y) /\ Mult90(models[j].z))

\* A part without `when` is returned behind a part accepted before it.
C3_Witness ==
  /\ PartsChosen /\ ret.st = "returned" /\ ~PolicyAnswered
  /\ \E p \in Unconditional, j \in 2..Len(ret.v) :
       ret.v[j].oid = FirstEntry(json.multipart[p].apply).oid

\* Whether the raw value of property k was a list.
ListValued(k) == RawValue(data, blockstate, k).t = "list"

\* The scored parts at positions a and b bind one list-valued property to
\* values that differ.
Clash(a, b) ==
  \E k \in {scoredParts[a].values[j].k : j \in 1..Len(scoredParts[a].values)} :
    /\ MapHas(scoredParts[b].values, k)
    /\ ListValued(k)
    /\ MapGet(scoredParts[a].values, k) # MapGet(scoredParts[b].values, k)

Accepted(e) == scoredParts[e].index \in Range(accepted)

ApplyOid(e) == FirstEntry(scoredParts[e].part.apply).oid

HasModel(e) ==
  /\ FirstEntry(scoredParts[e].part.apply).t = "model"
  /\ FirstEntry(scoredParts[e].part.apply).model # ""

\* C4 as stated: of two matching parts that bind one list-valued property
\* to conflicting values, only the earlier one is in the output.
C4_OnlyEarlierSurvives ==
  (PartsChosen /\ ret.st = "returned" /\ ~PolicyAnswered) =>
    \A a, b \in 1..Len(scoredParts) :
      (a < b /\ Clash(a, b) /\ HasModel(a) /\ HasModel(b)) =>
        (ApplyOid(a) \in Oids(ret.v) /\ ApplyOid(b) \notin Oids(ret.v))

\* C4, amended: the matching parts are processed by score descending, then
\* declaration index ascending; a part is rejected exactly when it binds a
\* list-valued property to a value that differs from the binding of a part
\* accepted before it; so two parts with such a conflict are never both in
\* the output, the later one being rejected whenever the earlier one was
\* accepted; bindings of scalar-valued properties reject nothing.
C4_Exclusivity ==
  PartsChosen =>
    /\ \A a, b \in 1..Len(scoredParts) :
         a < b =>
           \/ scoredParts[a].score > scoredParts[b].score
           \/ /\ scoredParts[a].score = scoredParts[b].score
              /\ scoredParts[a].index < scoredParts[b].index
    /\ \A b \in 1..Len(scoredParts) :
         ~Accepted(b) <=> \E a \in 1..(b - 1) : Accepted(a) /\ Clash(a, b)
    /\ \A a, b \in 1..Len(scoredParts) :
         (a < b /\ Clash(a, b)) => ~(Accepted(a) /\ Accepted(b))
    /\ \A e \in 1..Len(scoredParts) :
         HasModel(e) => (Accepted(e) <=> ApplyOid(e) \in Oids(models))
    /\ (ret.st = "returned" /\ ~PolicyAnswered) => Oids(ret.v) = Oids(models)

\* A part is rejected for its conflict with an accepted part, and the list
\* is returned.
C4_Witness ==
  /\ PartsChosen /\ ret.st = "returned" /\ ~PolicyAnswered
  /\ \E a, b \in 1..Len(scoredParts) :
       /\ a < b /\ Clash(a, b) /\ Accepted(a) /\ ~Accepted(b)
       /\ HasModel(a) /\ HasModel(b)
       /\ ApplyOid(a) \in Oids(ret.v) /\ ApplyOid(b) \notin Oids(ret.v)

\* The strings the value of property k stands for: the elements of a list,
\* the scalar itself.
ValuesOf(k) ==
  LET r == RawValue(data, blockstate, k)
  IN IF r.t = "undef" THEN {}
     ELSE IF r.t = "list" THEN {toString(r.l[j]) : j \in 1..Len(r.l)}
     ELSE {toString(r)}

\* The same, a property without any value standing for "none".
ValuesOrNone(k) ==
  IF RawValue(data, blockstate, k).t = "undef" THEN {"none"} ELSE ValuesOf(k)

MapHolds(cond, Vals(_)) ==
  \A f \in 1..Len(cond) : Range(cond[f].v) \cap Vals(cond[f].k) # {}

Matched(p) == \E e \in 1..Len(scoredParts) : scoredParts[e].index = p

WhenLaw(Vals(_)) ==
  \A p \in 1..Len(json.multipart) :
    LET when == json.multipart[p].when
    IN /\ when.t = "map" => (Matched(p) => MapHolds(when.c, Vals))
       /\ when.t = "AND" =>
            (Matched(p) => \A c \in 1..Len(when.cs) : MapHolds(when.cs[c], Vals))
       /\ when.t = "OR" =>
            (Matched(p) <=> \E c \in 1..Len(when.cs) : MapHolds(when.cs[c], Vals))
       /\ ~Matched(p) =>
            /\ p \notin Range(accepted)
            /\ FirstEntry(json.multipart[p].apply).t = "model" =>
                 /\ FirstEntry(json.multipart[p].apply).oid \notin Oids(models)
                 /\ ret.st = "returned" =>
                      FirstEntry(json.multipart[p].apply).oid \notin Oids(ret.v)

\* C5 as stated: a field matches when the context/default value has an
\* element in the allowed set.
C5_WhenMatching == PartsScored => WhenLaw(ValuesOf)

\* C5, amended: a field matches when the context/default value has an
\* element in the allowed set, a property that has no value at all counting
\* as the value "none"; a bare map or AND group matches only if every field
\* of every map matches, an OR group if and only if one of its maps matches
\* in full; a part that does not match is never in the output.
C5_WhenMatchingOrNone == PartsScored => WhenLaw(ValuesOrNone)

\* An OR part matched through a map one field of which allows "none" for a
\* property without any value, and is returned.
C5_Witness ==
  /\ PartsChosen /\ ret.st = "returned" /\ ~PolicyAnswered
  /\ \E e \in 1..Len(scoredParts) :
       /\ scoredParts[e].part.when.t = "OR"
       /\ \E j \in 1..Len(scoredParts[e].values) :
            ValuesOf(scoredParts[e].values[j].k) = {}
       /\ ApplyOid(e) \in Oids(ret.v)
  /\ \E p \in 1..Len(json.multipart) : ~Matched(p)

\* The model objects of the document, by identity.
DocModels ==
  IF json.kind = "variants"
    THEN UNION { IF json.variants[c].value.t = "list"
                   THEN Range(json.variants[c].value.l)
                   ELSE {json.variants[c].value.m} : c \in 1..Len(json.variants) }
  ELSE IF json.kind = "multipart"
    THEN UNION { IF json.multipart[p].apply.t = "list"
                   THEN Range(json.multipart[p].apply.l)
                   ELSE {json.multipart[p].apply.m} : p \in 1..Len(json.multipart) }
  ELSE {}

\* C7: without the flag no returned reference has a rotation that is not a
\* multiple of 90, and a selected model with such a rotation makes the
\* placeholder the answer; with the flag the selected models are returned
\* with the rotations the document gives them.
C7_RotationPolicy ==
  (call = "parseBlockstate" /\ ret.st = "returned") =>
    /\ ~json.allow_invalid_rotations =>
         /\ \A j \in 1..Len(ret.v) :
              ret.v[j].t = "model" =>
                Mult90(ret.v[j].x) /\ Mult90(ret.v[j].y) /\ Mult90(ret.v[j].z)
         /\ (\E j \in 1..Len(models) :
               ~(Mult90(models[j].x) /\ Mult90(models[j].y) /\ Mult90(models[j].z)))
              => ret.v = <<MissingRef>>
    /\ json.allow_invalid_rotations =>
         /\ Len(ret.v) = Len(models)
         /\ \A j \in 1..Len(ret.v) :
              /\ ret.v[j].t = "model"
              /\ ret.v[j].oid = models[j].oid
              /\ ret.v[j].allow_invalid_rotations
              /\ \E m \in DocModels :
                   /\ m.oid = ret.v[j].oid
                   /\ m.x = ret.v[j].x /\ m.y = ret.v[j].y /\ m.z = ret.v[j].z

\* Two models were selected, one of them rotated by 45, and the placeholder
\* is returned.
C7_Witness ==
  /\ call = "parseBlockstate" /\ ret.st = "returned"
  /\ ~json.allow_invalid_rotations
  /\ Len(models) >= 2
  /\ ret.v = <<MissingRef>>

LookupDone == call = "lookup" /\ pc = "done"

\* The entries of the block-specific table whose key has a pattern that
\* matches the id.
MatchingEntries(id) ==
  {e \in 1..Len(UNIQUE_DEFAULT_BLOCKSTATES) :
     KeyMatches(UNIQUE_DEFAULT_BLOCKSTATES[e].key, id)}

\* The table the id selects: by the exact id, else the first match.
SelectedTable(id) ==
  IF \E e \in 1..Len(UNIQUE_DEFAULT_BLOCKSTATES) :
       UNIQUE_DEFAULT_BLOCKSTATES[e].key = <<id>>
    THEN UNIQUE_DEFAULT_BLOCKSTATES[
           CHOOSE e \in 1..Len(UNIQUE_DEFAULT_BLOCKSTATES) :
             UNIQUE_DEFAULT_BLOCKSTATES[e].key = <<id>>].table
  ELSE IF MatchingEntries(id) # {}
    THEN UNIQUE_DEFAULT_BLOCKSTATES[MinOf(MatchingEntries(id))].table
  ELSE [none |-> Undef]

\* C6: a value of the context comes first; for a property the context does
\* not give, the value is that of the block-specific table selected by the
\* exact id or else by the first key with a matching pattern, then that of
\* the global table, then undefined.
C6_DefaultLookupOrder ==
  LookupDone =>
    raw = IF prop \in DOMAIN data /\ data[prop].t # "undef" THEN data[prop]
          ELSE IF prop \in DOMAIN SelectedTable(blockstate)
            THEN SelectedTable(blockstate)[prop]
          ELSE IF prop \in DOMAIN DEFAULT_BLOCKSTATES THEN DEFAULT_BLOCKSTATES[prop]
          ELSE Undef

\* An id that two keys match takes the value of the first.
C6_Witness ==
  /\ LookupDone
  /\ ~(prop \in DOMAIN data /\ data[prop].t # "undef")
  /\ Cardinality(MatchingEntries(blockstate)) >= 2
  /\ prop = "facing" /\ raw = S("south")

----------------------------------------------------------------------------
(* Claims about failures and about resolveModelData *)

\* The top-level file of a call of parseBlockstate or parseItemDefinition.
TopLevelFile ==
  IF call = "parseBlockstate"
    THEN (IF overrideFile.st = "missing" THEN assetFile ELSE overrideFile)
    ELSE assetFile

\* The file of a model: that of the override store if there is one.
ChainFile(files, cur) ==
  IF OverrideModel(files, cur.item).st = "missing"
    THEN AssetModel(files, cur.namespace, cur.item)
    ELSE OverrideModel(files, cur.item)

\* Among the first n documents of the parent chain of cur, one is missing or
\* unparsable.
RECURSIVE ChainBreaks(_, _, _)
ChainBreaks(files, cur, n) ==
  IF n = 0 THEN FALSE
  ELSE IF ChainFile(files, cur).st # "json" THEN TRUE
  ELSE IF ChainFile(files, cur).doc.parent = <<>>
            \/ Head(ChainFile(files, cur).doc.parent) = "builtin"
    THEN FALSE
  ELSE ChainBreaks(files,
                   resolveNamespace(StripMinecraft(ChainFile(files, cur).doc.parent)),
                   n - 1)

Broken == ChainBreaks(pack, resolveNamespace(NameOf(model)), MaxStack)

\* C8: parseBlockstate and parseItemDefinition end with an error when their
\* top-level file is missing or unparsable; resolveModelData, when a file of
\* the parent chain is missing or unparsable, never ends with an error: from
\* the merge on its stack is the missing-model document alone, and the
\* result it returns has the textures and elements of that document.
C8_FailureSplit ==
  /\ (call \in {"parseBlockstate", "parseItemDefinition"} /\ pc = "done"
        /\ TopLevelFile.st # "json") => ret = Threw
  /\ (call = "resolveModelData" /\ Broken) =>
       /\ ret.st # "threw"
       /\ pc \in {"merge", "textures", "while", "assign", "sprite", "return", "done"} =>
            (failed /\ stack = <<MissingDocument>>)
       /\ pc = "done" =>
            /\ ret.st = "returned"
            /\ ret.v.textures = MissingDocument.textures
            /\ ret.v.elements = MissingDocument.elements

\* The first document was read, a parent of it was not, and the call returned.
C8_Witness ==
  /\ call = "resolveModelData" /\ pc = "done" /\ ret.st = "returned"
  /\ Broken /\ failed
  /\ ChainFile(pack, resolveNamespace(NameOf(model))).st = "json"

\* C9: no value of the textures of a result of resolveModelData starts with
\* the reference marker.
C9_NoReferenceLeft ==
  (call = "resolveModelData" /\ ret.st = "returned" /\ ret.v.textures.t = "table") =>
    \A j \in 1..Len(ret.v.textures.e) : ~startsWithHash(ret.v.textures.e[j].v)

\* The key the value of key k refers to, "" when that value is no reference.
Referred(table, k) ==
  IF Has(table, k) /\ startsWithHash(TexGet(table, k)) THEN RefKey(TexGet(table, k)) ELSE ""

\* The key reached from k by n references.
RECURSIVE Reached(_, _, _)
Reached(table, k, n) == IF n = 0 THEN k ELSE Reached(table, Referred(table, k), n - 1)

\* The chain of references of key k comes back to k.
Cyclic(table, k) == \E n \in 1..Len(table.e) : Reached(table, k, n) = k

\* C10: a key whose chain of references comes back to itself is not in the
\* textures of the result.
C10_CycleDeleted ==
  (call = "resolveModelData" /\ ret.st = "returned" /\ table0.t = "table") =>
    \A j \in 1..Len(table0.e) :
      Cyclic(table0, table0.e[j].k) => ~Has(ret.v.textures, table0.e[j].k)

\* The value of key k is a reference to a key the table does not have.
Dangling(table, k) ==
  /\ Has(table, k) /\ startsWithHash(TexGet(table, k))
  /\ ~Has(table, RefKey(TexGet(table, k)))

\* C11: when a value of the merged textures refers to a key the table does
\* not have, resolveModelData returns without an error and the entry is not
\* in the textures of the result.
C11_MissingKeyDeleted ==
  (call = "resolveModelData" /\ pc = "done" /\ table0.t = "table"
     /\ \E j \in 1..Len(table0.e) : Dangling(table0, table0.e[j].k)) =>
    /\ ret.st = "returned"
    /\ \A j \in 1..Len(table0.e) :
         Dangling(table0, table0.e[j].k) => ~Has(ret.v.textures, table0.e[j].k)

\* The value of field f in the first of the layers that declares it.
RECURSIVE FirstDeclared(_, _)
FirstDeclared(layers, f) ==
  IF layers = <<>> THEN Undef
  ELSE IF Head(layers)[f].t # "undef" THEN Head(layers)[f]
  ELSE FirstDeclared(Tail(layers), f)

\* C12: after the merge every scalar field has the value of the most-derived
\* layer of the stack that declares it, whatever that value is, and the
\* result returns it so for a field no later step writes.
C12_FirstWriteWins ==
  /\ (call = "resolveModelData" /\ pc = "textures") =>
       \A f \in {"elements", "ambientocclusion"} : merged[f] = FirstDeclared(stack, f)
  /\ (call = "resolveModelData" /\ pc = "done" /\ ret.st = "returned") =>
       ret.v.ambientocclusion = FirstDeclared(stack, "ambientocclusion")

\* The steps of resolveModelData after the merge of the layers.
Merged ==
  call = "resolveModelData"
    /\ pc \in {"textures", "while", "assign", "sprite", "return", "done"}

\* Layer i of the stack declares texture key k.
Declares(i, k) == stack[i].textures.t = "table" /\ Has(stack[i].textures, k)

\* C13: the textures table the merge produces has every key that a layer of
\* the stack declares and no other key, and each key has the value of the
\* most-derived layer that declares it; it is absent when no layer has
\* textures.
C13_TextureMerge ==
  Merged =>
    /\ table0.t = "undef" <=> \A i \in 1..Len(stack) : stack[i].textures.t = "undef"
    /\ \A i \in 1..Len(stack) :
         stack[i].textures.t = "table" =>
           \A j \in 1..Len(stack[i].textures.e) :
             /\ Has(table0, stack[i].textures.e[j].k)
             /\ (\A h \in 1..(i - 1) : ~Declares(h, stack[i].textures.e[j].k)) =>
                  TexGet(table0, stack[i].textures.e[j].k) = stack[i].textures.e[j].v
    /\ table0.t = "table" =>
         \A j \in 1..Len(table0.e) : \E i \in 1..Len(stack) : Declares(i, table0.e[j].k)

\* Two layers declare one key with different values, and the ancestor
\* declares a key the derived layer does not have.
C13_Witness ==
  /\ Merged /\ Len(stack) >= 2
  /\ \E k \in {"side"} :
       /\ Declares(1, k) /\ Declares(2, k)
       /\ TexGet(stack[1].textures, k) # TexGet(stack[2].textures, k)
       /\ TexGet(table0, k) = TexGet(stack[1].textures, k)
  /\ \E k \in {"end"} : ~Declares(1, k) /\ Declares(2, k) /\ Has(table0, k)

\* Layer i of the stack declares display slot k.
DeclaresSlot(i, k) == stack[i].display.t = "table" /\ Has(stack[i].display, k)

\* C14: for a model that is not of type block the display of the result has
\* the slots the layers of the stack declare and no other, each with the
\* transform of the most-derived layer that declares it; for a model of type
\* block the result has no display, whatever the layers declare.
C14_DisplayMerge ==
  Merged =>
    IF merged.type = "block" THEN merged.display.t = "undef"
    ELSE
      /\ merged.display.t = "undef" <=> \A i \in 1..Len(stack) : stack[i].display.t = "undef"
      /\ \A i \in 1..Len(stack) :
           stack[i].display.t = "table" =>
             \A j \in 1..Len(stack[i].display.e) :
               /\ Has(merged.display, stack[i].display.e[j].k)
               /\ (\A h \in 1..(i - 1) : ~DeclaresSlot(h, stack[i].display.e[j].k)) =>
                    TexGet(merged.display, stack[i].display.e[j].k) = stack[i].display.e[j].v
      /\ merged.display.t = "table" =>
           \A j \in 1..Len(merged.display.e) :
             \E i \in 1..Len(stack) : DeclaresSlot(i, merged.display.e[j].k)

\* The call returned a model that is not a block; two layers declare the slot
\* gui with different transforms, and the ancestor alone the slot ground.
C14_Witness ==
  /\ call = "resolveModelData" /\ pc = "done" /\ ret.st = "returned"
  /\ merged.type # "block" /\ Len(stack) >= 2
  /\ DeclaresSlot(1, "gui") /\ DeclaresSlot(2, "gui")
  /\ TexGet(stack[1].display, "gui") # TexGet(stack[2].display, "gui")
  /\ TexGet(ret.v.display, "gui") = TexGet(stack[1].display, "gui")
  /\ ~DeclaresSlot(1, "ground") /\ Has(ret.v.display, "ground")

\* resolveModelData returned the extrusion of a sprite: the last document of
\* the stack has the generated marker as its parent and no layer has elements.
Extruded ==
  /\ call = "resolveModelData" /\ pc = "done" /\ ret.st = "returned"
  /\ StripMinecraft(stack[Len(stack)].parent) = Generated
  /\ \A i \in 1..Len(stack) : stack[i].elements.t = "undef"

\* The picture behind entry j of the textures of the result.
PictureOf(j) == loadMinecraftTexture(LayerFile(pack, ret.v.textures.e[j].v))

\* The elements of the result whose faces refer to key k.
ElementsOf(k) ==
  LET OfKey(el) == el.faces["north"].texture = <<"#", k>>
  IN SelectSeq(ret.v.elements.l, OfKey)

\* The pixel an element stands for, from its lower corner.
PixelX(el) == el.from[1] \div (el.to[1] - el.from[1])
PixelY(el) == (16 - el.from[2]) \div (el.to[1] - el.from[1]) - 1

\* Pixel (x, y) is outside the picture or has alpha 0.
Transparent(image, x, y) ==
  \/ x < 0 \/ x >= image.width \/ y < 0 \/ y >= image.height
  \/ image.alpha[y * image.width + x + 1] = 0

\* Element el of layer n has the faces of pixel (PixelX, PixelY) of image.
FacesOfPixel(el, image, n) ==
  /\ ~Transparent(image, PixelX(el), PixelY(el))
  /\ {"north", "south"} \subseteq DOMAIN el.faces
  /\ "up" \in DOMAIN el.faces <=> Transparent(image, PixelX(el), PixelY(el) - 1)
  /\ "down" \in DOMAIN el.faces <=> Transparent(image, PixelX(el), PixelY(el) + 1)
  /\ "west" \in DOMAIN el.faces <=> Transparent(image, PixelX(el) - 1, PixelY(el))
  /\ "east" \in DOMAIN el.faces <=> Transparent(image, PixelX(el) + 1, PixelY(el))
  /\ \A f \in DOMAIN el.faces : el.faces[f].tintindex = n

\* The elements els are those of the opaque pixels of image, one each.
OnePerPixel(els, image, n) ==
  /\ Len(els) = Cardinality({i \in 1..Len(image.alpha) : image.alpha[i] # 0})
  /\ \A a \in 1..Len(els) : FacesOfPixel(els[a], image, n)
  /\ \A a, b \in 1..Len(els) :
       a # b => <<PixelX(els[a]), PixelY(els[a])>> # <<PixelX(els[b]), PixelY(els[b])>>

\* C15: in the extrusion of a sprite every texture layerN gives one element
\* for each pixel that is not transparent and no other; an element has its
\* north and south faces, and its west, east, up or down face exactly when
\* the neighbouring pixel on that side is transparent or outside the
\* picture; every face has tint index N.  The elements of the result are
\* those of the layers and no more.
C15_SpriteExtrusion ==
  Extruded =>
    /\ \A j \in 1..Len(ret.v.textures.e) :
         LayerIndex(ret.v.textures.e[j].k) >= 0 =>
           OnePerPixel(ElementsOf(ret.v.textures.e[j].k), PictureOf(j),
                       LayerIndex(ret.v.textures.e[j].k))
    /\ \A a \in 1..Len(ret.v.elements.l) :
         \E j \in 1..Len(ret.v.textures.e) :
           /\ LayerIndex(ret.v.textures.e[j].k) >= 0
           /\ ret.v.elements.l[a].faces["north"].texture = <<"#", ret.v.textures.e[j].k>>

\* An extrusion of three layers: one with two opaque pixels side by side, of
\* which one has no east face and the other no west face, one of a single
\* pixel with all six faces, and one without an opaque pixel and so without
\* an element.
C15_Witness ==
  /\ Extruded
  /\ \E a, b \in 1..Len(ElementsOf("layer0")) :
       /\ "east" \notin DOMAIN ElementsOf("layer0")[a].faces
       /\ "west" \notin DOMAIN ElementsOf("layer0")[b].faces
       /\ "up" \in DOMAIN ElementsOf("layer0")[a].faces
  /\ Len(ElementsOf("layer1")) = 1
  /\ DOMAIN ElementsOf("layer1")[1].faces = {"north", "south", "up", "down", "west", "east"}
  /\ ElementsOf("layer1")[1].faces["up"].tintindex = 1
  /\ Has(ret.v.textures, "layer2") /\ ElementsOf("layer2") = <<>>

----------------------------------------------------------------------------
(* Claims about parseItemDefinition *)

\* parseItemDefinition returned, and the model of the definition has type ty.
ItemDone(ty) ==
  /\ call = "parseItemDefinition" /\ pc = "done" /\ ret.st = "returned"
  /\ IsObject(Field(json, "model")) /\ TypeOf(json.model) = <<ty>>

\* What parseItemDefinition returns when the evaluation continues with def.
ContinuesWith(def) ==
  [j \in 1..Len(resolveItemModel(def, data, display)) |->
     ItemModel(resolveItemModel(def, data, display)[j])]

\* The entries of a range dispatch whose threshold is at most scaled.
Qualifying(def, scaled) ==
  {j \in 1..Len(Entries(def)) : Entries(def)[j].threshold <= scaled}

\* The model of the entry of the highest threshold among them, the fallback
\* when there is none.
HighestQualifying(def, scaled) ==
  IF Qualifying(def, scaled) = {} THEN Field(def, "fallback")
  ELSE Entries(def)[CHOOSE j \in Qualifying(def, scaled) :
                      \A h \in Qualifying(def, scaled) :
                        Entries(def)[h].threshold <= Entries(def)[j].threshold].model

\* The numeric context value of the property of def: 0 when it is unset.
NumericValue(def) ==
  IF ContextValue(data, def).t = "undef" THEN 0 ELSE ContextValue(data, def).n

\* C16: a range dispatch on a numeric (or unset) property continues with the
\* model of the entry of the highest threshold among the entries whose
\* threshold is at most scale times the value, in whatever order the entries
\* are listed, and with the fallback when no entry qualifies.
C16_HighestThreshold ==
  (ItemDone("range_dispatch") /\ ContextValue(data, json.model).t \in {"undef", "num"}) =>
    ret.v = ContinuesWith(
              HighestQualifying(json.model,
                                (IF "scale" \in DOMAIN json.model THEN json.model.scale ELSE 1)
                                  * NumericValue(json.model)))

\* The candidate value of a select: the context value of its property as a
\* string without the default namespace, the display slot of the caller for
\* an unset display_context, the empty string for another unset property.
Candidate(def) ==
  IF ContextValue(data, def).t # "undef"
    THEN StripMinecraft(StringOf(ContextValue(data, def)))
  ELSE IF StripMinecraft(def.property) = <<"display_context">> THEN <<display>>
  ELSE <<>>

\* The `when` of case c, a literal or a list, has v as it is written.
WhenIs(c, v) ==
  IF c.when.t = "list" THEN \E j \in 1..Len(c.when.l) : c.when.l[j] = v
  ELSE c.when.c = v

\* The `when` of case c has v once the default namespace is taken off it.
WhenNames(c, v) ==
  IF c.when.t = "list" THEN \E j \in 1..Len(c.when.l) : StripMinecraft(c.when.l[j]) = v
  ELSE StripMinecraft(c.when.c) = v

\* The model of the first case that matches v, the fallback when none does.
FirstCase(def, v, Matches(_, _)) ==
  IF \E j \in 1..Len(def.cases) : Matches(def.cases[j], v)
    THEN def.cases[CHOOSE j \in 1..Len(def.cases) :
                     /\ Matches(def.cases[j], v)
                     /\ \A h \in 1..(j - 1) : ~Matches(def.cases[h], v)].model
    ELSE Field(def, "fallback")

\* C17 as it is stated: a select continues with the model of the first case
\* whose `when`, or a member of whose `when` list, equals the candidate
\* value, with the fallback when there is no such case, and returns the
\* empty list when there is neither.
C17_SelectAsWritten ==
  ItemDone("select") =>
    ret.v = ContinuesWith(FirstCase(json.model, Candidate(json.model), WhenIs))

\* C17, amended: the `when` literals are compared without the default
\* namespace too.  A select continues with the model of the first case, in
\* the order of declaration, whose `when` or a member of whose `when` list
\* names the candidate value, with the fallback when there is no such case,
\* and returns the empty list when there is neither.
C17_Select ==
  ItemDone("select") =>
    /\ ret.v = ContinuesWith(FirstCase(json.model, Candidate(json.model), WhenNames))
    /\ ((\A j \in 1..Len(json.model.cases) :
            ~WhenNames(json.model.cases[j], Candidate(json.model)))
          /\ "fallback" \notin DOMAIN json.model) => ret.v = <<>>

\* display_context is unset and the slot of the caller is the candidate; two
\* cases name it, the second of them with the namespace written out, and the
\* model of the first is returned.
C17_Witness ==
  /\ ItemDone("select")
  /\ ContextValue(data, json.model).t = "undef" /\ Candidate(json.model) = <<display>>
  /\ Len(json.model.cases) = 2
  /\ WhenNames(json.model.cases[1], <<display>>)
  /\ WhenNames(json.model.cases[2], <<display>>) /\ ~WhenIs(json.model.cases[2], <<display>>)
  /\ json.model.cases[1].model # json.model.cases[2].model
  /\ ret.v = <<json.model.cases[1].model>>

\* The last n hexadecimal digits of a natural number.
RECURSIVE HexOf(_, _)
HexOf(v, n) == IF n = 0 THEN "" ELSE HexOf(v \div 16, n - 1) \o HexDigits[(v % 16) + 1]

\* The integer a literal tint carries: its value, else its default.
Carried(tint) == Coalesce(Field(tint, "value"), Field(tint, "default"))

\* C18: a tint that is not of a colormap kind resolves to "#" and the six
\* hexadecimal digits of the low 24 bits of the integer it carries, for
\* every 32-bit integer, 0 and the negative ones among them, and to
\* "#FFFFFF" when it carries neither a value nor a default.
C18_LiteralTint ==
  (ItemDone("model") /\ "tints" \in DOMAIN json.model) =>
    \A j \in 1..Len(json.model.tints) :
      TypeOf(json.model.tints[j]) # <<"grass">> =>
        ret.v[1].tints[j] =
          IF Carried(json.model.tints[j]).t = "num"
            THEN "#" \o HexOf(Carried(json.model.tints[j]).n % 16777216, 6)
            ELSE "#FFFFFF"

----------------------------------------------------------------------------
(* Claims about loadModel *)

\* The meshes loadModel has made: those of containerGroup and, once its UVs
\* are written, the one at hand.
Meshes ==
  IF pc \in {"material", "follow"} THEN Append(group, mesh) ELSE group

\* C19: for a model whose placement rotation is (0, 0, 0) the UV corners
\* written for a face are those computed with uvlock set and those computed
\* with uvlock unset, which are the same, for every element and face, with
\* explicit or derived UVs and any rotation of the face.
C19_UVLockNoOp ==
  (call = "loadModel" /\ merged.x = 0 /\ merged.y = 0 /\ merged.z = 0) =>
    \A j \in 1..Len(Meshes) :
      \A f \in DOMAIN Meshes[j].uv :
        /\ Meshes[j].uv[f] =
             FaceUV(Elements(merged)[Meshes[j].element], f, [merged EXCEPT !.uvlock = TRUE])
        /\ Meshes[j].uv[f] =
             FaceUV(Elements(merged)[Meshes[j].element], f, [merged EXCEPT !.uvlock = FALSE])

\* A model without rotation and with uvlock set: the UVs of an element are
\* written, one face of it with explicit UVs, one with derived UVs on the
\* top, one with a rotation of its own.
C19_Witness ==
  /\ call = "loadModel" /\ pc = "material"
  /\ merged.x = 0 /\ merged.y = 0 /\ merged.z = 0 /\ merged.uvlock
  /\ \E f, g \in DOMAIN mesh.uv :
       /\ "uv" \in DOMAIN Elements(merged)[idx].faces[f]
       /\ g = "up" /\ "uv" \notin DOMAIN Elements(merged)[idx].faces[g]
       /\ "rotation" \in DOMAIN Elements(merged)[idx].faces[g]
       /\ mesh.uv[g] # Corners(DerivedUV(Elements(merged)[idx], g))

\* Element j has a rotation with an axis and no angle, or an angle and no axis.
OneOfAxisAndAngle(j) ==
  /\ "rotation" \in DOMAIN Elements(merged)[j]
  /\ ("axis" \in DOMAIN Elements(merged)[j].rotation)
       # ("angle" \in DOMAIN Elements(merged)[j].rotation)

\* The mesh of element j is in a group of the scene.
Rendered(j) ==
  \E g \in 1..Len(scene) : \E k \in 1..Len(scene[g]) : scene[g][k].element = j

----------------------------------------------------------------------------
(* Claims about batches of calls *)

\* The texture id the reference of a face ends at, through the textures of
\* the model, n references followed at most.
RECURSIVE Followed(_, _, _)
Followed(m, ref, n) ==
  IF n = 0 \/ ~startsWithHash(ref) THEN ref
  ELSE Followed(m, IF m.textures.t = "table" THEN TexGet(m.textures, RefKey(ref))
                   ELSE Undef, n - 1)

\* The id of face fc of the model m: a reference that ends is followed
\* through each entry of the table once at most.
FaceId(m, fc) ==
  Followed(m, Tex(Hashed(fc.texture)),
           IF m.textures.t = "table" THEN Len(m.textures.e) + 1 ELSE 1)

\* The cache entry e is what a load of a face of m itself puts in an empty
\* cache.
BuiltBy(m, files, e) ==
  \E j \in 1..Len(Elements(m)) : \E f \in DOMAIN Elements(m)[j].faces :
    /\ "texture" \in DOMAIN Elements(m)[j].faces[f]
    /\ FaceId(m, Elements(m)[j].faces[f]) = e.k
    /\ e.v = loadModelTexture(<<>>, files, e.k,
                               FaceTint(m, Elements(m)[j].faces[f])).texture

\* Every entry of a cache of loadModel, of the running call or of a waiting
\* one, was built by a load of that invocation.
CacheIsOwn ==
  /\ call = "loadModel" =>
       \A j \in 1..Len(textureCache) : BuiltBy(merged, pack, textureCache[j])
  /\ \A i \in DOMAIN calls \ {self} :
       calls[i].call = "loadModel" =>
         \A j \in 1..Len(calls[i].textureCache) :
           BuiltBy(calls[i].merged, calls[i].pack, calls[i].textureCache[j])

\* A step of the running call changes the variables of no waiting call, and
\* a call that goes on finds each of its variables as its await left it.
Isolated ==
  /\ self' = self => calls' = calls
  /\ self' # self =>
       /\ Frame' = calls[self']
       /\ calls' = [calls EXCEPT ![self] = Frame]

\* C21: in a chunk of calls of parseBlockstate, parseItemDefinition,
\* resolveModelData and loadModel that are interleaved at their awaits, a
\* step of one call changes no variable of another, so that each call, its
\* steps depending on its own variables and on the files alone, returns what
\* it returns alone; the tables of the module are never written; and the
\* texture cache of an invocation of loadModel holds what that invocation
\* loaded and nothing of another.
C21_Isolation == []CacheIsOwn /\ [][Isolated]_vars

\* Two invocations of loadModel of one chunk, each waiting for a picture or
\* going on after one, with caches that differ.
C21_Witness ==
  /\ self = 2 /\ call = "loadModel" /\ pc = "follow" /\ textureCache # <<>>
  /\ calls[1].call = "loadModel" /\ calls[1].pc = "follow"
  /\ calls[1].textureCache # <<>>
  /\ calls[1].textureCache # textureCache

----------------------------------------------------------------------------
(* Claims about failures of textures *)

\* Every value of the table is a string.
AllStrings(table) == \A j \in 1..Len(table.e) : table.e[j].v.t = "str"

\* The walk went through, the references are followed and the textures are
\* strings: what is left of resolveModelData is the expansion of its layers.
AtLayers ==
  /\ call = "resolveModelData" /\ ~failed /\ idx > Len(keys)
  /\ merged.textures.t = "table" /\ AllStrings(merged.textures)

\* loadModel ended at the load of the texture of a face.
AtFaceTexture ==
  call = "loadModel" /\ pc = "done" /\ face <= Len(faceOrder) /\ texRef.t = "str"

\* C22: once the first document of the call is read, a texture that is not
\* there or does not load ends neither resolveModelData, in the expansion of
\* the layers of a generated item, nor loadModel, at the material of a face:
\* the call returns.
C22_TextureNeverFatal ==
  /\ (AtLayers /\ pc = "done") => ret.st = "returned"
  /\ AtFaceTexture => ret.st = "returned"

----------------------------------------------------------------------------
(* Claims about the texture cache *)

\* The texture a load in an empty cache builds for the face fc of m.
Fresh(m, files, fc) ==
  loadModelTexture(<<>>, files, FaceId(m, fc), FaceTint(m, fc)).texture

\* C23: in one call of loadModel, after any number of loads, the material of
\* every face that has a texture carries the texture a load in an empty
\* cache builds from the id and the tint of that face: blended with the tint
\* for a face whose tintindex selects one, plain for a face without, two
\* faces of one texture id included.
C23_CacheCoherent ==
  call = "loadModel" =>
    \A j \in 1..Len(Meshes) :
      \A k \in 1..Len(Meshes[j].materials) :
        Meshes[j].materials[k].visible =>
          Meshes[j].materials[k].map =
            Fresh(merged, pack, Elements(merged)[Meshes[j].element].faces[faceOrder[k]])

----------------------------------------------------------------------------
(* Claims about termination *)

\* C24: loadModel of a model that resolveModelData returned, whatever the
\* textures of its document, references that come back to themselves or
\* name a key that is not there included, comes to its end: the loop that
\* follows the reference of a face through the textures stops.
C24_BindingTerminates ==
  (calls = <<>> /\ call = "loadModel" /\ pc = "start") ~> (pc = "done")

\* C25: resolveModelData on any pack and override store, parents that come
\* back to a document of their chain included, comes to its end: the walk
\* stops at a document without a parent, at a builtin marker or in the catch
\* block, and the call returns or throws.
C25_WalkTerminates ==
  (calls = <<>> /\ call = "resolveModelData" /\ pc = "start") ~>
    (call = "loadModel" \/ pc = "done")

====
